---- MODULE Spec2Model ----
(***************************************************************************)
(* A model of wasmtoolbox's binary decoder (src/lib/parser.{h,cpp}).       *)
(*                                                                         *)
(* The decoder is a recursive-descent parser over a std::istream with one  *)
(* byte of lookahead.  Every parse function of Wasm_parser is an operator  *)
(* on outcomes [p, err, val]: the parser p = [is, cur_byte, cur_offset],   *)
(* the reason of the exception under way ("" when there is none) and the   *)
(* value returned.  Actions apply the functions to the parser held in the  *)
(* variables.                                                              *)
(*                                                                         *)
(* Integers wider than TLC's are kept as sets of bit positions (bit i is   *)
(* set iff i is in the set), so that the widths of int, uint32_t, int64_t  *)
(* and uint64_t and the conversions between them are exact.                *)
(***************************************************************************)
EXTENDS Integers, Sequences, FiniteSets, TLC

VARIABLES
  is_,          \* the std::istream: [data, pos, eofbit]
  cur_byte,     \* Wasm_parser::cur_byte (uint8_t)
  cur_offset,   \* Wasm_parser::cur_offset (long)
  module,       \* the Ast_module being built / returned
  pc,           \* "new" (no parser constructed), "ready", "failed" (an exception left the call)
  call,         \* the last member function called: [op, at] (at: cur_offset at the call)
  ret,          \* its outcome: [err, val]
  shift_ub,     \* how this build resolves a left shift of an int by 32 or more (undefined behaviour)
  cerr,         \* what has been written to std::cerr
  given,        \* the input and the member function it is for: [kind, op, x]
  os,           \* Text_format_writer::os_: the characters written to the std::ostream
  need_ws,      \* Text_format_writer::need_ws
  indent_level, \* Text_format_writer::indent_level (int)
  just_closed_sexp, \* Text_format_writer::just_closed_sexp
  toks,         \* history: what each call of a token primitive wrote, [kind, from, to, indent]
  cout,         \* what the process has written to std::cout
  exit_status,  \* how the process ended: [how |-> "running", "exit" or "abort", code]
  stage         \* where parse_module is when it runs statement by statement

\* The Text_format_writer and the process of the command line tool.
writer_vars == <<os, need_ws, indent_level, just_closed_sexp, toks>>
process_vars == <<cout, exit_status, stage>>

vars ==
  <<is_, cur_byte, cur_offset, module, pc, call, ret, shift_ub, cerr, given,
    writer_vars, process_vars>>

(***************************************************************************)
(* Fixed-width integers as sets of bit positions                           *)
(***************************************************************************)

\* The bits of a byte (or of any small natural below 2^8).
Bits(n) == {i \in 0..7 : (n \div (2^i)) % 2 = 1}

\* x << s computed in a type w bits wide (C++20: the result modulo 2^w).
Shl(x, s, w) == {b + s : b \in x} \cap (0..(w-1))

\* Conversion of a signed value `from` bits wide to a type `to` bits wide.
SignExtend(x, from, to) == IF (from - 1) \in x THEN x \cup (from..(to-1)) ELSE x

\* static_cast to an unsigned type w bits wide.
Truncate(x, w) == x \cap (0..(w-1))

\* static_cast<intN_t> of a 64-bit value, as the 64-bit pattern of the value it holds.
CastSigned(x, w) == SignExtend(Truncate(x, w), w, 64)

\* The outcomes of `int << s` with s >= 32 (undefined): the count taken modulo
\* 32 (x86-64, AArch64 shift instructions) or every bit shifted out (ARM32).
ShiftOutcomes == {"mod32", "zero"}

\* (int) << shift, then converted to a 64-bit type (sign extension).
IntShl(x, shift) ==
  SignExtend(IF shift < 32 THEN Shl(x, shift, 32)
             ELSE IF shift_ub = "mod32" THEN Shl(x, shift % 32, 32)
             ELSE {},
             32, 64)

\* The natural number a bit set stands for, saturated at 2^30 (offsets and
\* sizes of the inputs considered stay far below that).
Huge == 2^30

RECURSIVE SumPow(_)
SumPow(x) == IF x = {} THEN 0
             ELSE LET b == CHOOSE b \in x : TRUE IN 2^b + SumPow(x \ {b})

ToNat(x) == IF x \subseteq 0..29 THEN SumPow(x) ELSE Huge

(***************************************************************************)
(* std::istream                                                            *)
(***************************************************************************)

EOF == -1

Stream(bytes) == [data |-> bytes, pos |-> 0, eofbit |-> FALSE]

\* is_->get(): the next byte, or EOF (and eofbit) when there is none.
get(s) ==
  IF ~s.eofbit /\ s.pos < Len(s.data)
  THEN [c |-> s.data[s.pos + 1], s |-> [s EXCEPT !.pos = @ + 1]]
  ELSE [c |-> EOF, s |-> [s EXCEPT !.eofbit = TRUE]]

\* An ignore(n) that sets eofbit also when the n-th byte it extracts is the
\* last one of the input.
ignore_eof_at_last(s, n) ==
  IF s.eofbit \/ n <= 0 THEN s
  ELSE IF Len(s.data) - s.pos > n THEN [s EXCEPT !.pos = @ + n]
  ELSE [s EXCEPT !.pos = Len(s.data), !.eofbit = TRUE]

\* is_->ignore(n): extracts up to n bytes; eofbit when the input ends first.
\* On a stream that is not good() the sentry fails and nothing is extracted.
ignore(s, n) ==
  IF s.eofbit \/ n <= 0 THEN s
  ELSE IF Len(s.data) - s.pos >= n THEN [s EXCEPT !.pos = @ + n]
  ELSE [s EXCEPT !.pos = Len(s.data), !.eofbit = TRUE]

\* Conversion of get()'s int to uint8_t.
ToU8(c) == c % 256

(***************************************************************************)
(* Outcomes of parse functions                                             *)
(*                                                                         *)
(* A parse function is an operator from the outcome r of what ran before   *)
(* it to its own outcome.  An outcome is [p, err, val]: the parser, the    *)
(* reason of the exception under way ("" when there is none) and the value *)
(* returned last.  When an exception is under way nothing runs: a parse    *)
(* function applied to a failed outcome is that outcome.  Statements in a  *)
(* row are therefore applications in a row: f(); g(); is g(f(r)).          *)
(***************************************************************************)

Ok(p, v) == [p |-> p, err |-> "", val |-> v]
Throw(p, e) == [p |-> p, err |-> e, val |-> <<>>]
Failed(r) == r.err # ""

\* The same outcome with another value.
WithVal(r, v) == [p |-> r.p, err |-> r.err, val |-> v]

(***************************************************************************)
(* Cursor: prime, skip_bytes, parse_byte, match_byte, maybe_match_byte     *)
(***************************************************************************)

\* cur_byte = is_->get(), with cur_offset set to offset; g is what get() gave.
lookahead(g, offset) == [is |-> g.s, cur_byte |-> ToU8(g.c), cur_offset |-> offset]

prime(s) == lookahead(get(s), 0)

\* skip_bytes leaving cur_offset one short of the bytes it skipped.
skip_bytes_one_short(r, count) ==
  IF Failed(r) THEN r
  ELSE IF count <= 0 THEN Ok(r.p, <<>>)
  ELSE LET s1 == ignore(r.p.is, count - 1) IN
       IF s1.eofbit THEN Throw([r.p EXCEPT !.is = s1], "UnexpectedEof")
       ELSE Ok(lookahead(get(s1), r.p.cur_offset + count - 1), <<>>)

skip_bytes(r, count) ==
  IF Failed(r) THEN r
  ELSE IF count <= 0 THEN Ok(r.p, <<>>)
  ELSE LET s1 == ignore(r.p.is, count - 1) IN
       IF s1.eofbit THEN Throw([r.p EXCEPT !.is = s1], "UnexpectedEof")
       ELSE Ok(lookahead(get(s1), r.p.cur_offset + count), <<>>)

\* A parse_byte that leaves cur_offset as it was.
parse_byte_same_offset(r) ==
  IF Failed(r) THEN r
  ELSE IF r.p.is.eofbit THEN Throw(r.p, "UnexpectedEof")
  ELSE Ok(lookahead(get(r.p.is), r.p.cur_offset), r.p.cur_byte)

parse_byte(r) ==
  IF Failed(r) THEN r
  ELSE IF r.p.is.eofbit THEN Throw(r.p, "UnexpectedEof")
  ELSE Ok(lookahead(get(r.p.is), r.p.cur_offset + 1), r.p.cur_byte)

match_byte(r, expected) ==
  LET b == parse_byte(r) IN
  IF Failed(b) THEN b
  ELSE IF b.val # expected THEN Throw(b.p, "ExpectedByte")
  ELSE Ok(b.p, <<>>)

maybe_match_byte(r, probe) ==
  IF Failed(r) THEN r
  ELSE IF r.p.cur_byte = probe THEN WithVal(parse_byte(r), TRUE)
  ELSE Ok(r.p, FALSE)

(***************************************************************************)
(* 5.2.2 Integers (LEB128)                                                 *)
(***************************************************************************)

\* n & 0x7f and n & 0x3f, as bits.
Low7_unmasked(n) == Bits(n)
Low7(n) == Bits(n % 128)
Low6(n) == Bits(n % 64)

\* "more than N bits encoded by trailing byte" (unsigned).
TrailingOverflowU_off_by_one(n, N_now) == N_now < 8 /\ n > 2^N_now
TrailingOverflowU(n, N_now) == N_now < 8 /\ n >= 2^N_now

\* The same for a trailing byte with bit 6 clear (positive) and set (negative).
TrailingOverflowPos(n, N_now) == N_now < 8 /\ n >= 2^(N_now - 1)
TrailingOverflowNeg_unsigned_bound(n, N_now) == N_now < 8 /\ n < 2^7 - 2^N_now
TrailingOverflowNeg(n, N_now) == N_now < 8 /\ n < 2^7 - 2^(N_now - 1)

\* "more than N bits encoded by middle byte".
MiddleOverflow(N_now) == N_now <= 7

\* The loop of internal_parse_uN from "auto n = parse_byte()" on: b is the
\* outcome of that parse_byte().  result |= (n & 0x7f) << shift is the
\* loop's next statement; its value is written where the paths that do not
\* throw use it.
RECURSIVE uN_loop(_, _, _, _, _)
uN_loop(b, N, N_now, shift, result) ==
  IF Failed(b) THEN b
  ELSE LET n == b.val IN
       IF n < 128
       THEN IF TrailingOverflowU(n, N_now)
            THEN Throw(b.p, "InvalidLeb128")
            ELSE Ok(b.p, result \cup IntShl(Low7(n), shift))
       ELSE IF MiddleOverflow(N_now)
            THEN Throw(b.p, "InvalidLeb128")
            ELSE uN_loop(parse_byte(b), N, N_now - 7, shift + 7,
                         result \cup IntShl(Low7(n), shift))

internal_parse_uN(r, N) == uN_loop(parse_byte(r), N, N, 0, {})

\* The unsigned parsers return the value cast to uintN_t.
CastU(r, w) == IF Failed(r) THEN r ELSE Ok(r.p, Truncate(r.val, w))

parse_u8(r) == CastU(internal_parse_uN(r, 8), 8)
parse_u16(r) == CastU(internal_parse_uN(r, 16), 16)
parse_u32(r) == CastU(internal_parse_uN(r, 32), 32)

\* int64_t{n} - int64_t{0x80} for a byte n with bit 7 clear: bits 7..63 set.
MinusHex80(n) == Bits(n) \cup (7..63)

\* The loop of internal_parse_sN from "auto n = parse_byte()" on.
RECURSIVE sN_loop(_, _, _, _, _)
sN_loop(b, N, N_now, shift, result) ==
  IF Failed(b) THEN b
  ELSE LET n == b.val IN
       IF n < 128
       THEN IF (n \div 64) % 2 = 0
            THEN IF TrailingOverflowPos(n, N_now)
                 THEN Throw(b.p, "InvalidLeb128")
                 ELSE Ok(b.p, result \cup IntShl(Low6(n), shift))
            ELSE IF TrailingOverflowNeg(n, N_now)
                 THEN Throw(b.p, "InvalidLeb128")
                 ELSE Ok(b.p, result \cup Shl(MinusHex80(n), shift, 64))
       ELSE IF MiddleOverflow(N_now)
            THEN Throw(b.p, "InvalidLeb128")
            ELSE sN_loop(parse_byte(b), N, N_now - 7, shift + 7,
                         result \cup IntShl(Low7(n), shift))

internal_parse_sN(r, N) == sN_loop(parse_byte(r), N, N, 0, {})

\* The signed parsers return the value cast to intN_t.
CastS(r, w) == IF Failed(r) THEN r ELSE Ok(r.p, CastSigned(r.val, w))

parse_s8(r) == CastS(internal_parse_sN(r, 8), 8)
parse_s16(r) == CastS(internal_parse_sN(r, 16), 16)
parse_s33(r) == CastS(internal_parse_sN(r, 33), 64)
parse_i32(r) == CastS(internal_parse_sN(r, 32), 32)
parse_i64(r) == CastS(internal_parse_sN(r, 64), 64)

(***************************************************************************)
(* 5.1.3 Vectors, 5.2.3 Floating-Point, 5.2.4 Names                        *)
(***************************************************************************)

\* std::invoke(parser, ...): the call of the parse function that a lambda
\* consists of, named by that function.  The calls of parse_expr and of the
\* parsers of a module's sections are written in the same way.
RECURSIVE invoke(_, _)

\* result.push_back(e) for the outcome e of an element parser.
push_back(result, e) ==
  IF Failed(e) THEN e ELSE Ok(e.p, Append(result.val, e.val))

\* for (auto i = ...; i != n; ++i) { result.push_back(element_parser(i)); }
\* from iteration i on.  Every element parser reads a byte or throws, so
\* the loop ends with the input at the latest.
RECURSIVE ForEach(_, _, _, _)
ForEach(result, i, n, element_parser) ==
  IF Failed(result) \/ i = n THEN result
  ELSE ForEach(push_back(result, invoke(element_parser, result)),
               i + 1, n, element_parser)

\* for (auto i = ...; i != n; ++i) { result.push_back(parse_byte()); } from
\* iteration i on, and the n parse_byte() calls in a row of parse_f32 and
\* parse_f64.
RECURSIVE parse_bytes(_, _, _)
parse_bytes(result, i, n) ==
  IF Failed(result) \/ i = n THEN result
  ELSE parse_bytes(push_back(result, parse_byte(result)), i + 1, n)

\* std::numeric_limits<uint32_t>::max()
UInt32Max == 0..31

\* CHECK_NE(n, max) << "would overflow loop!": the process is terminated.
CheckNotMax(n) ==
  IF Failed(n) THEN n
  ELSE IF n.val = UInt32Max THEN Throw(n.p, "CheckFailed")
  ELSE n

parse_vec(r, element_parser) ==
  LET n == CheckNotMax(parse_u32(r))
  IN ForEach(WithVal(n, <<>>), 0, ToNat(n.val), element_parser)

\* An assembly with the first byte as the most significant one.
LittleEndian_first_byte_high(bytes, w) ==
  UNION {{8 * (Len(bytes) - k) + j : j \in Bits(bytes[k])} : k \in 1..Len(bytes)}

\* The little-endian assembly of bytes into a pattern w bits wide.
RECURSIVE LittleEndian(_, _)
LittleEndian(bytes, w) ==
  IF bytes = <<>> THEN {}
  ELSE Shl(Bits(Head(bytes)), 0, w) \cup Shl(LittleEndian(Tail(bytes), w - 8), 8, w)

\* bits |= parse_byte() << 0; ... then std::bit_cast of the bits.
parse_f32(r) ==
  LET bytes == parse_bytes(WithVal(r, <<>>), 0, 4) IN
  IF Failed(bytes) THEN bytes ELSE Ok(bytes.p, LittleEndian(bytes.val, 32))

parse_f64(r) ==
  LET bytes == parse_bytes(WithVal(r, <<>>), 0, 8) IN
  IF Failed(bytes) THEN bytes ELSE Ok(bytes.p, LittleEndian(bytes.val, 64))

parse_name(r) ==
  LET n == CheckNotMax(parse_u32(r))
  IN parse_bytes(WithVal(n, <<>>), 0, ToNat(n.val))

(***************************************************************************)
(* 5.3 Types                                                               *)
(***************************************************************************)

parse_numtype(r) ==
  LET b == parse_byte(r) IN
  IF Failed(b) THEN b
  ELSE CASE b.val = 127 -> Ok(b.p, "i32")
         [] b.val = 126 -> Ok(b.p, "i64")
         [] b.val = 125 -> Ok(b.p, "f32")
         [] b.val = 124 -> Ok(b.p, "f64")
         [] OTHER -> Throw(b.p, "UnknownTag")

parse_vectype(r) ==
  LET b == parse_byte(r) IN
  IF Failed(b) THEN b
  ELSE CASE b.val = 123 -> Ok(b.p, "v128")
         [] OTHER -> Throw(b.p, "UnknownTag")

parse_reftype(r) ==
  LET b == parse_byte(r) IN
  IF Failed(b) THEN b
  ELSE CASE b.val = 112 -> Ok(b.p, "funcref")
         [] b.val = 111 -> Ok(b.p, "externref")
         [] OTHER -> Throw(b.p, "UnknownTag")

can_parse_valtype(p) == p.cur_byte \in {127, 126, 125, 124, 123, 112, 111}

\* The dispatch is on the lookahead, whether or not the input has ended.
parse_valtype(r) ==
  IF Failed(r) THEN r
  ELSE CASE r.p.cur_byte \in {127, 126, 125, 124} -> parse_numtype(r)
         [] r.p.cur_byte = 123 -> parse_vectype(r)
         [] r.p.cur_byte \in {112, 111} -> parse_reftype(r)
         [] OTHER -> Throw(r.p, "UnknownTag")

parse_resulttype(r) == parse_vec(r, "parse_valtype")

parse_functype(r) ==
  LET params == parse_resulttype(match_byte(r, 96))
      results == parse_resulttype(params)
  IN IF Failed(results) THEN results
     ELSE Ok(results.p, [params |-> params.val, results |-> results.val])

parse_limits(r) ==
  LET b == parse_byte(r) IN
  IF Failed(b) THEN b
  ELSE CASE b.val \in {0, 2} -> parse_u32(b)
         [] b.val \in {1, 3} -> parse_u32(parse_u32(b))
         [] OTHER -> Throw(b.p, "UnknownTag")

parse_memtype(r) == parse_limits(r)

parse_tabletype(r) == parse_limits(parse_reftype(r))

parse_mut(r) ==
  LET b == parse_byte(r) IN
  IF Failed(b) THEN b
  ELSE IF b.val \in {0, 1} THEN Ok(b.p, <<>>) ELSE Throw(b.p, "UnknownTag")

parse_globaltype(r) == parse_mut(parse_valtype(r))

(***************************************************************************)
(* 5.5.1 Indices                                                           *)
(***************************************************************************)

parse_typeidx(r) == parse_u32(r)
parse_funcidx(r) == parse_u32(r)
parse_tableidx(r) == parse_u32(r)
parse_memidx(r) == parse_u32(r)
parse_tagidx(r) == parse_u32(r)
parse_dataidx(r) == parse_u32(r)
parse_labelidx(r) == parse_u32(r)

(***************************************************************************)
(* 5.4 Instructions                                                        *)
(***************************************************************************)

k_instr_block == 2
k_instr_loop == 3
k_instr_if == 4
k_instr_else == 5
k_instr_try == 6
k_instr_catch == 7
k_instr_end == 11
k_instr_delegate == 24
k_instr_catch_all == 25
k_instr_ext_prefix == 252
k_instr_atomic_prefix == 254

\* The opcodes of parse_instr's switch that take no immediate (case ...: break;).
NoImmediateOpcodes ==
  {
   0, 1, 15, 26, 27, 69, 70, 71, 72, 73, 74, 75, 76, 77, 78, 79, 80, 81, 82,
   83, 84, 85, 86, 87, 88, 89, 90, 97, 98, 99, 100, 101, 102, 103, 104, 106,
   107, 108, 109, 110, 111, 112, 113, 114, 115, 116, 117, 118, 119, 121, 122,
   124, 125, 126, 127, 128, 129, 130, 131, 132, 133, 134, 135, 136, 148, 153,
   154, 155, 156, 159, 160, 161, 162, 163, 167, 170, 171, 172, 173, 176, 177,
   178, 182, 183, 184, 185, 186, 187, 188, 189, 190, 191, 192, 193, 194, 195 }

\* throw, rethrow, br, br_if, call, local.get/set/tee, global.get/set: one index.
OneIndexOpcodes == {8, 9, 12, 13, 16, 32, 33, 34, 35, 36}

\* The loads and stores 0x28..0x3e: a memarg.
MemargOpcodes == 40..62

\* The secondary opcodes after 0xfe (all take a memarg).
\* Every secondary opcode up to the last one declared.
AtomicOpcodes_every == 0..78
AtomicOpcodes ==
  {
   0, 1, 16, 17, 18, 23, 24, 25, 30, 37, 51, 65, 67, 72, 74 }

parse_blocktype(r) ==
  LET m == maybe_match_byte(r, 64) IN
  IF Failed(m) THEN m
  ELSE IF m.val THEN Ok(m.p, <<>>)
  ELSE IF can_parse_valtype(m.p) THEN parse_valtype(m)
  ELSE parse_s33(m)

parse_memarg(r) == parse_u32(parse_u32(r))

\* The instructions after prefix 0xfe.
parse_atomic_instr(r) ==
  LET opcode2 == parse_u32(r) IN
  IF Failed(opcode2) THEN opcode2
  ELSE IF ToNat(opcode2.val) \in AtomicOpcodes THEN parse_memarg(opcode2)
  ELSE Throw(opcode2.p, "UnknownOpcode")

\* The instructions after prefix 0xfc.
parse_ext_instr(r) ==
  LET opcode2 == parse_u32(r) IN
  IF Failed(opcode2) THEN opcode2
  ELSE CASE ToNat(opcode2.val) = 8 -> match_byte(parse_dataidx(opcode2), 0)
         [] ToNat(opcode2.val) = 9 -> parse_dataidx(opcode2)
         [] ToNat(opcode2.val) = 10 -> match_byte(match_byte(opcode2, 0), 0)
         [] ToNat(opcode2.val) = 11 -> match_byte(opcode2, 0)
         [] OTHER -> Throw(opcode2.p, "UnknownOpcode")

RECURSIVE parse_instr(_)
RECURSIVE instrs_until(_, _)
RECURSIVE catch_clauses(_)
RECURSIVE catch_all_clauses(_)

\* while (cur_byte is none of `stops`) { parse_instr(); }
instrs_until(r, stops) ==
  IF Failed(r) \/ r.p.cur_byte \in stops THEN r
  ELSE instrs_until(parse_instr(r), stops)

\* A try that takes no catch clause.
catch_clauses_none(r) == r

\* while (cur_byte == k_instr_catch) { catch tagidx instr* }
catch_clauses(r) ==
  IF Failed(r) \/ r.p.cur_byte # k_instr_catch THEN r
  ELSE catch_clauses(
         instrs_until(parse_tagidx(match_byte(r, k_instr_catch)),
                      {k_instr_catch, k_instr_catch_all, k_instr_end}))

\* while (cur_byte == k_instr_catch_all) { catch_all instr* }
catch_all_clauses(r) ==
  IF Failed(r) \/ r.p.cur_byte # k_instr_catch_all THEN r
  ELSE catch_all_clauses(
         instrs_until(match_byte(r, k_instr_catch_all),
                      {k_instr_catch_all, k_instr_end}))

\* A block left before its end.
parse_block_without_end(r) == instrs_until(parse_blocktype(r), {k_instr_end})

parse_block(r) ==
  match_byte(instrs_until(parse_blocktype(r), {k_instr_end}), k_instr_end)

parse_if(r) ==
  LET in1 == instrs_until(parse_blocktype(r), {k_instr_else, k_instr_end}) IN
  IF ~Failed(in1) /\ in1.p.cur_byte = k_instr_else
  THEN match_byte(instrs_until(match_byte(in1, k_instr_else), {k_instr_end}),
                  k_instr_end)
  ELSE match_byte(in1, k_instr_end)

parse_try(r) ==
  LET body == instrs_until(parse_blocktype(r),
                           {k_instr_catch, k_instr_catch_all, k_instr_delegate,
                            k_instr_end})
  IN IF ~Failed(body) /\ body.p.cur_byte = k_instr_delegate
     THEN parse_labelidx(match_byte(body, k_instr_delegate))
     ELSE match_byte(catch_all_clauses(catch_clauses(body)), k_instr_end)

parse_br_table(r) == parse_labelidx(parse_vec(r, "parse_labelidx"))

parse_call_indirect(r) == parse_tableidx(parse_typeidx(r))

parse_instr(r) ==
  LET b == parse_byte(r)
      opcode == b.val
  IN IF Failed(b) THEN b
     ELSE CASE opcode \in NoImmediateOpcodes -> Ok(b.p, <<>>)
            [] opcode \in {k_instr_block, k_instr_loop} -> parse_block(b)
            [] opcode = k_instr_if -> parse_if(b)
            [] opcode = k_instr_try -> parse_try(b)
            [] opcode \in OneIndexOpcodes -> parse_u32(b)
            [] opcode = 14 -> parse_br_table(b)
            [] opcode = 17 -> parse_call_indirect(b)
            [] opcode \in MemargOpcodes -> parse_memarg(b)
            [] opcode = 63 -> match_byte(b, 0)
            [] opcode = k_instr_atomic_prefix -> parse_atomic_instr(b)
            [] opcode = 65 -> parse_i32(b)
            [] opcode = 66 -> parse_i64(b)
            [] opcode = 67 -> parse_f32(b)
            [] opcode = 68 -> parse_f64(b)
            [] opcode = k_instr_ext_prefix -> parse_ext_instr(b)
            [] OTHER -> Throw(b.p, "UnknownOpcode")

\* 5.4.9 Expressions
parse_expr(r) == match_byte(instrs_until(r, {k_instr_end}), k_instr_end)

(***************************************************************************)
(* 5.5.2 Sections                                                          *)
(***************************************************************************)

k_section_custom == 0
k_section_type == 1
k_section_import == 2
k_section_function == 3
k_section_table == 4
k_section_memory == 5
k_section_global == 6
k_section_export == 7
k_section_start == 8
k_section_element == 9
k_section_code == 10
k_section_data == 11
k_section_data_count == 12
k_section_tag == 13

\* if (actual_size != declared_size) throw ...
SizeMismatch_only_overrun(actual_size, declared_size) == actual_size > declared_size
SizeMismatch(actual_size, declared_size) == actual_size # declared_size

\* match_byte(section_id); auto declared_size = parse_u32();
\* auto start_offset = cur_offset;
section_header(r, section_id) == parse_u32(match_byte(r, section_id))

\* parse_section from std::invoke(section_parser, declared_size) on: h is
\* the outcome of the header and result that of the section parser after it.
parse_section(h, result) ==
  IF Failed(result) THEN result
  ELSE LET declared_size == ToNat(h.val)
           start_offset == h.p.cur_offset
           end_offset == result.p.cur_offset
           actual_size == end_offset - start_offset
       IN IF SizeMismatch(actual_size, declared_size)
          THEN WithVal(Throw(result.p, "SectionSizeMismatch"), result.val)
          ELSE result

(***************************************************************************)
(* 5.5.3 Custom Section and 7.4.1 Name section                             *)
(***************************************************************************)

k_name_subsection_module == 0
k_name_subsection_functions == 1
k_name_subsection_locals == 2
k_name_subsection_globals == 7
k_name_subsection_data_segments == 9

\* "name" and "sourceMappingURL" as bytes.
Str_name == <<110, 97, 109, 101>>
Str_sourceMappingURL ==
  <<115, 111, 117, 114, 99, 101, 77, 97, 112, 112, 105, 110, 103, 85, 82, 76>>

\* match_byte(N); auto size = parse_u32(); the subsection parser that
\* std::invoke then calls is applied to this outcome.
parse_namesubsection(r, N) == parse_u32(match_byte(r, N))

parse_nameassoc(r) == parse_name(parse_u32(r))
parse_namemap(r) == parse_vec(r, "parse_nameassoc")
parse_indirectnameassoc(r) == parse_namemap(parse_u32(r))
parse_indirectnamemap(r) == parse_vec(r, "parse_indirectnameassoc")

parse_modulenamesubsec(r) ==
  parse_name(parse_namesubsection(r, k_name_subsection_module))
parse_funcnamesubsec(r) ==
  parse_namemap(parse_namesubsection(r, k_name_subsection_functions))
parse_localnamesubsec(r) ==
  parse_indirectnamemap(parse_namesubsection(r, k_name_subsection_locals))
parse_globalnamesubsec(r) ==
  parse_namemap(parse_namesubsection(r, k_name_subsection_globals))
parse_datasegmentnamesubsec(r) ==
  parse_namemap(parse_namesubsection(r, k_name_subsection_data_segments))

\* An unrecognized subsection whose payload is not skipped.
skip_unknown_subsection_nothing(h) == h

\* skip_bytes(subsection_size), the subsection parser of a subsection with
\* an unrecognized id; h is the outcome of the subsection's header.
skip_unknown_subsection(h) == skip_bytes(h, ToNat(h.val))

\* Ast_module{}
NoModule == [name |-> <<>>, types |-> <<>>, imports |-> <<>>]

\* What a parse function of a module works on, kept as its value also when
\* an exception leaves it: the module and what was written to std::cerr.
Out(m, log) == [module |-> m, cerr |-> log]

\* module.name = parse_modulenamesubsec();
SetName_keeps_first(m, name) == IF m.name = <<>> THEN [m EXCEPT !.name = <<name>>] ELSE m
SetName(m, name) == [m EXCEPT !.name = <<name>>]

\* while (cur_offset < end_offset) { switch (Name_subsection_id{cur_byte}) ... }
RECURSIVE name_subsections(_, _, _)
name_subsections(r, end_offset, out) ==
  IF Failed(r) THEN WithVal(r, out)
  ELSE IF ~(r.p.cur_offset < end_offset) THEN Ok(r.p, out)
  ELSE LET N_offset == r.p.cur_offset
           N == r.p.cur_byte
           name == parse_modulenamesubsec(r)
           h == parse_namesubsection(r, N)
       IN CASE N = k_name_subsection_module ->
                 name_subsections(name, end_offset,
                                  IF Failed(name) THEN out
                                  ELSE Out(SetName(out.module, name.val), out.cerr))
            [] N = k_name_subsection_functions ->
                 name_subsections(parse_funcnamesubsec(r), end_offset, out)
            [] N = k_name_subsection_locals ->
                 name_subsections(parse_localnamesubsec(r), end_offset, out)
            [] N = k_name_subsection_globals ->
                 name_subsections(parse_globalnamesubsec(r), end_offset, out)
            [] N = k_name_subsection_data_segments ->
                 name_subsections(parse_datasegmentnamesubsec(r), end_offset, out)
            [] OTHER ->
                 name_subsections(
                   skip_unknown_subsection(h), end_offset,
                   IF Failed(h) THEN out
                   ELSE Out(out.module,
                            Append(out.cerr,
                                   [warning |-> "Unrecognized namesubsection",
                                    id |-> N, at |-> N_offset,
                                    skipping |-> ToNat(h.val)])))

\* The lambda of parse_customsec from "auto name = parse_name()" on: h is
\* the outcome of the section's header, name that of parse_name() and out
\* the module and std::cerr before.
customsec_body(h, name, out) ==
  LET size == ToNat(h.val)
      start_offset == h.p.cur_offset
      end_offset == start_offset + size
      url == parse_name(name)
      out2 == Out(out.module,
                  Append(out.cerr, [warning |-> "Source mapping url", url |-> url.val]))
  IN IF Failed(name) THEN WithVal(name, out)
     ELSE IF name.val = Str_name THEN name_subsections(name, end_offset, out)
     ELSE IF name.val = Str_sourceMappingURL
     THEN IF Failed(url) THEN WithVal(url, out)
          ELSE IF url.p.cur_offset # end_offset
          THEN WithVal(skip_bytes(url, end_offset - url.p.cur_offset),
                       Out(out2.module, Append(out2.cerr, [warning |-> "??"])))
          ELSE Ok(url.p, out2)
     ELSE WithVal(skip_bytes(name, size - (name.p.cur_offset - start_offset)), out)

\* The module the section works on and what is on std::cerr are the value
\* of r, and of the outcome.
parse_customsec(r) ==
  LET h == section_header(r, k_section_custom)
  IN parse_section(h, customsec_body(h, parse_name(h), r.val))

(***************************************************************************)
(* 5.5.4 - 5.5.15 The non-custom sections                                  *)
(***************************************************************************)

\* parse_section(section_id, [&](auto) { return parse_vec(element_parser); })
vec_section(h, element_parser) == parse_section(h, parse_vec(h, element_parser))

parse_typesec(r) == vec_section(section_header(r, k_section_type), "parse_functype")

parse_tag(r) == parse_typeidx(match_byte(r, 0))

parse_importdesc(r) ==
  LET b == parse_byte(r) IN
  IF Failed(b) THEN b
  ELSE CASE b.val = 0 -> parse_typeidx(b)
         [] b.val = 1 -> parse_tabletype(b)
         [] b.val = 2 -> parse_memtype(b)
         [] b.val = 3 -> parse_globaltype(b)
         [] b.val = 4 -> parse_tag(b)
         [] OTHER -> Throw(b.p, "UnknownTag")

parse_import(r) ==
  LET module_name == parse_name(r)
      name == parse_name(module_name)
      desc == parse_importdesc(name)
  IN IF Failed(desc) THEN desc
     ELSE Ok(desc.p, [module |-> module_name.val, name |-> name.val])

parse_importsec(r) == vec_section(section_header(r, k_section_import), "parse_import")

parse_funcsec(r) == vec_section(section_header(r, k_section_function), "parse_typeidx")

parse_table(r) == parse_tabletype(r)

parse_tablesec(r) == vec_section(section_header(r, k_section_table), "parse_table")

parse_mem(r) == parse_memtype(r)

parse_memsec(r) == vec_section(section_header(r, k_section_memory), "parse_mem")

parse_global(r) == invoke("parse_expr", parse_globaltype(r))

parse_globalsec(r) == vec_section(section_header(r, k_section_global), "parse_global")

parse_exportdesc(r) ==
  LET b == parse_byte(r) IN
  IF Failed(b) THEN b
  ELSE IF b.val \in 0..4 THEN parse_u32(b) ELSE Throw(b.p, "UnknownTag")

parse_export(r) == parse_exportdesc(parse_name(r))

parse_exportsec(r) == vec_section(section_header(r, k_section_export), "parse_export")

parse_start(r) == parse_funcidx(r)

parse_startsec(r) ==
  LET h == section_header(r, k_section_start) IN parse_section(h, parse_start(h))

parse_elem(r) ==
  LET discriminant == parse_u32(r) IN
  IF Failed(discriminant) THEN discriminant
  ELSE IF ToNat(discriminant.val) = 0
       THEN parse_vec(invoke("parse_expr", discriminant), "parse_funcidx")
       ELSE Throw(discriminant.p, "UnknownTag")

parse_elemsec(r) == vec_section(section_header(r, k_section_element), "parse_elem")

parse_locals(r) == parse_valtype(parse_u32(r))

parse_func(r) == invoke("parse_expr", parse_vec(r, "parse_locals"))

\* A code entry whose declared size is compared with what the function
\* takes.
parse_code_sized(r) ==
  LET size == parse_u32(r)
      func == parse_func(size)
  IN IF Failed(func) \/ func.p.cur_offset - size.p.cur_offset = ToNat(size.val)
     THEN func
     ELSE Throw(func.p, "SectionSizeMismatch")

\* parse_u32();  // size
\* parse_func();  // Assume ||func|| == size
parse_code(r) == parse_func(parse_u32(r))

parse_codesec(r) == vec_section(section_header(r, k_section_code), "parse_code")

parse_data(r) ==
  LET discriminant == parse_u32(r) IN
  IF Failed(discriminant) THEN discriminant
  ELSE CASE ToNat(discriminant.val) = 0 ->
              parse_vec(invoke("parse_expr", discriminant), "parse_byte")
         [] ToNat(discriminant.val) = 1 -> parse_vec(discriminant, "parse_byte")
         [] ToNat(discriminant.val) = 2 ->
              parse_vec(invoke("parse_expr", parse_memidx(discriminant)), "parse_byte")
         [] OTHER -> Throw(discriminant.p, "UnknownTag")

parse_datasec(r) == vec_section(section_header(r, k_section_data), "parse_data")

parse_datacountsec(r) ==
  LET h == section_header(r, k_section_data_count) IN parse_section(h, parse_u32(h))

parse_tagsec(r) == vec_section(section_header(r, k_section_tag), "parse_tag")

(***************************************************************************)
(* 5.5.16 Modules                                                          *)
(***************************************************************************)

Magic == <<0, 97, 115, 109>>
Version == <<1, 0, 0, 0>>

\* match_byte(b1); match_byte(b2); match_byte(b3); match_byte(b4);
RECURSIVE match_bytes(_, _)
match_bytes(r, expected) ==
  IF Failed(r) \/ expected = <<>> THEN r
  ELSE match_bytes(match_byte(r, Head(expected)), Tail(expected))

parse_magic(r) == match_bytes(r, Magic)

parse_version_unchecked(r) == skip_bytes(r, 4)
parse_version(r) == match_bytes(r, Version)

\* The parser of each section id.
SecOp(id) ==
  CASE id = k_section_custom -> "parse_customsec"
    [] id = k_section_type -> "parse_typesec"
    [] id = k_section_import -> "parse_importsec"
    [] id = k_section_function -> "parse_funcsec"
    [] id = k_section_table -> "parse_tablesec"
    [] id = k_section_memory -> "parse_memsec"
    [] id = k_section_global -> "parse_globalsec"
    [] id = k_section_export -> "parse_exportsec"
    [] id = k_section_start -> "parse_startsec"
    [] id = k_section_element -> "parse_elemsec"
    [] id = k_section_code -> "parse_codesec"
    [] id = k_section_data -> "parse_datasec"
    [] id = k_section_data_count -> "parse_datacountsec"
    [] id = k_section_tag -> "parse_tagsec"

\* The section parser parse_module calls for a section id.
known_section(r, id) == invoke(SecOp(id), r)

\* The order of the "if (not is_->eof() && cur_byte == k_section_...)"
\* statements of parse_module.
SectionOrder_data_count_last ==
  <<k_section_type, k_section_import, k_section_function, k_section_table,
    k_section_memory, k_section_tag, k_section_global, k_section_export,
    k_section_start, k_section_element, k_section_code, k_section_data,
    k_section_data_count>>
SectionOrder ==
  <<k_section_type, k_section_import, k_section_function, k_section_table,
    k_section_memory, k_section_tag, k_section_global, k_section_export,
    k_section_start, k_section_element, k_section_data_count, k_section_code,
    k_section_data>>

\* while (not is_->eof() && cur_byte == k_section_custom) { parse_customsec(module); }
\* The module and std::cerr are the value of r, as in parse_customsec.
RECURSIVE parse_opt_customsecs(_)
parse_opt_customsecs(r) ==
  IF Failed(r) \/ r.p.is.eofbit \/ r.p.cur_byte # k_section_custom THEN r
  ELSE parse_opt_customsecs(invoke("parse_customsec", r))

\* A section that may come several times in a row.
RECURSIVE optional_section_repeated(_, _)
optional_section_repeated(r, id) ==
  IF Failed(r) \/ r.p.is.eofbit \/ r.p.cur_byte # id THEN r
  ELSE LET sec == known_section(r, id)
       IN optional_section_repeated(WithVal(sec, r.val), id)

\* if (not is_->eof() && cur_byte == id) { ... parse_<id>sec(); }, with
\* module.types = parse_typesec(); and module.imports = parse_importsec();
optional_section(r, id) ==
  IF Failed(r) \/ r.p.is.eofbit \/ r.p.cur_byte # id THEN r
  ELSE LET out == r.val
           sec == known_section(r, id)
       IN IF Failed(sec) THEN WithVal(sec, out)
          ELSE CASE id = k_section_type ->
                      Ok(sec.p, Out([out.module EXCEPT !.types = sec.val], out.cerr))
                 [] id = k_section_import ->
                      Ok(sec.p, Out([out.module EXCEPT !.imports = sec.val], out.cerr))
                 [] OTHER -> Ok(sec.p, out)

\* The statements of parse_module from the parse_opt_customsecs() before
\* its i-th optional section on.
RECURSIVE sections_from(_, _)
sections_from(r, i) ==
  IF Failed(r) THEN r
  ELSE IF i > Len(SectionOrder) THEN parse_opt_customsecs(r)
  ELSE sections_from(optional_section(parse_opt_customsecs(r), SectionOrder[i]), i + 1)

\* if (not is_->eof()) throw ...
DataContinues_never(p) == FALSE
DataContinues(p) == ~p.is.eofbit

\* auto module = Ast_module{}; ... return module;
parse_module(r) ==
  LET s == sections_from(
             WithVal(parse_version(parse_magic(r)), Out(NoModule, <<>>)), 1)
  IN IF Failed(s) THEN s
     ELSE IF DataContinues(s.p) THEN WithVal(Throw(s.p, "TrailingBytes"), s.val)
     ELSE s

\* std::invoke, and the calls written in its way.
invoke(parser, r) ==
  CASE parser = "parse_byte" -> parse_byte(r)
    [] parser = "parse_valtype" -> parse_valtype(r)
    [] parser = "parse_functype" -> parse_functype(r)
    [] parser = "parse_labelidx" -> parse_labelidx(r)
    [] parser = "parse_funcidx" -> parse_funcidx(r)
    [] parser = "parse_typeidx" -> parse_typeidx(r)
    [] parser = "parse_nameassoc" -> parse_nameassoc(r)
    [] parser = "parse_indirectnameassoc" -> parse_indirectnameassoc(r)
    [] parser = "parse_import" -> parse_import(r)
    [] parser = "parse_table" -> parse_table(r)
    [] parser = "parse_mem" -> parse_mem(r)
    [] parser = "parse_global" -> parse_global(r)
    [] parser = "parse_export" -> parse_export(r)
    [] parser = "parse_elem" -> parse_elem(r)
    [] parser = "parse_code" -> parse_code(r)
    [] parser = "parse_locals" -> parse_locals(r)
    [] parser = "parse_data" -> parse_data(r)
    [] parser = "parse_tag" -> parse_tag(r)
    [] parser = "parse_instr" -> parse_instr(r)
    [] parser = "parse_expr" -> parse_expr(r)
    [] parser = "parse_customsec" -> parse_customsec(r)
    [] parser = "parse_typesec" -> parse_typesec(r)
    [] parser = "parse_importsec" -> parse_importsec(r)
    [] parser = "parse_funcsec" -> parse_funcsec(r)
    [] parser = "parse_tablesec" -> parse_tablesec(r)
    [] parser = "parse_memsec" -> parse_memsec(r)
    [] parser = "parse_tagsec" -> parse_tagsec(r)
    [] parser = "parse_globalsec" -> parse_globalsec(r)
    [] parser = "parse_exportsec" -> parse_exportsec(r)
    [] parser = "parse_startsec" -> parse_startsec(r)
    [] parser = "parse_elemsec" -> parse_elemsec(r)
    [] parser = "parse_datacountsec" -> parse_datacountsec(r)
    [] parser = "parse_codesec" -> parse_codesec(r)
    [] parser = "parse_datasec" -> parse_datasec(r)
    [] parser = "parse_module" -> parse_module(r)

(***************************************************************************)
(* Inputs of the integer parsers                                           *)
(***************************************************************************)

\* Bit i of the two's complement pattern x, continued past bit 63 by its sign.
XBit(x, i) == IF i >= 64 THEN 63 \in x ELSE i \in x

\* Byte i (from 0) of a LEB128 encoding of x: bits 7i..7i+6.
Group7(x, i) ==
    (IF XBit(x, 7*i)     THEN 1  ELSE 0) + (IF XBit(x, 7*i + 1) THEN 2  ELSE 0)
  + (IF XBit(x, 7*i + 2) THEN 4  ELSE 0) + (IF XBit(x, 7*i + 3) THEN 8  ELSE 0)
  + (IF XBit(x, 7*i + 4) THEN 16 ELSE 0) + (IF XBit(x, 7*i + 5) THEN 32 ELSE 0)
  + (IF XBit(x, 7*i + 6) THEN 64 ELSE 0)

Leb(x, len) == [i \in 1..len |-> Group7(x, i - 1) + (IF i < len THEN 128 ELSE 0)]

SetMax(S) == CHOOSE m \in S : \A k \in S : k <= m
SetMin(S) == CHOOSE m \in S : \A k \in S : m <= k

\* The minimal unsigned LEB128 encoding of x (x a set of bits below 64).
ULEB(x) == Leb(x, IF x = {} THEN 1 ELSE (SetMax(x) \div 7) + 1)

\* The minimal signed LEB128 encoding of the 64-bit two's complement pattern x:
\* the fewest 7-bit groups whose top bit is already the sign.
SLEB(x) ==
  Leb(x, SetMin({k \in 1..10 : \A b \in (7*k - 1)..63 : (b \in x) <=> (63 \in x)}))

\* x is the pattern of a value of the signed type N bits wide.
InRangeS(x, N) == \A b \in (N - 1)..63 : (b \in x) <=> (63 \in x)
\* x is a value of the unsigned type N bits wide.
InRangeU(x, N) == x \subseteq 0..(N - 1)

\* Sample values: at most two bits set (or, negated, clear) at the positions
\* where a 7-bit group or a type ends, and runs of ones from bit 0.
UPos == {0, 1, 6, 7, 8, 13, 14, 15, 20, 21, 27, 28, 30, 31}
USamples == {{a, b} : a, b \in UPos} \cup {0..k : k \in UPos} \cup {{}}

SPos == {0, 5, 6, 7, 13, 14, 15, 20, 27, 28, 30, 31, 32, 34, 35, 41, 42, 48, 55, 56, 61, 62}
SPositive == {{a, b} : a, b \in SPos} \cup {0..k : k \in SPos} \cup {{}}
SSamples == SPositive \cup {(0..63) \ x : x \in SPositive}

\* Ill-formed and padded encodings: k continuation bytes, then any trailing
\* byte, or nothing (the input ends inside the number).
MaxCont == 10
ContBytes == {128, 131, 255}
ContRuns == {[i \in 1..k |-> c] : k \in 0..MaxCont, c \in ContBytes}
\* Trailing bytes around the thresholds 2^k, 2^(k-1) and 2^7 - 2^(k-1).
TrailBytes == {0, 1, 2, 3, 4, 7, 8, 15, 16, 31, 32, 62, 63, 64, 111, 112, 119, 120, 123, 125, 126, 127}
RawInts == {run \o <<t>> : run \in ContRuns, t \in TrailBytes} \cup ContRuns

\* The bytes an encoding N bits wide may take: ceil(N / 7).
MaxBytes(N) == (N + 6) \div 7

(***************************************************************************)
(* Actions: a parser is constructed on an input, then member functions are *)
(* called on it until one throws.                                          *)
(***************************************************************************)

NoCall == [op |-> "none", at |-> 0]
NoRet == [err |-> "", val |-> <<>>]
Init ==
  /\ is_ = Stream(<<>>)
  /\ cur_byte = 0
  /\ cur_offset = 0
  /\ module = NoModule
  /\ pc = "new"
  /\ call = NoCall
  /\ ret = NoRet
  /\ shift_ub \in ShiftOutcomes
  /\ cerr = <<>>
  /\ given = [kind |-> "none", op |-> "any", x |-> {}]
  /\ os = <<>>
  /\ need_ws = FALSE
  /\ indent_level = 0
  /\ just_closed_sexp = FALSE
  /\ toks = <<>>
  /\ cout = <<>>
  /\ exit_status = [how |-> "running", code |-> 0]
  /\ stage = 0

\* The outcome of what ran before a call: the parser in its variables.
Self == Ok([is |-> is_, cur_byte |-> cur_byte, cur_offset |-> cur_offset], <<>>)

\* explicit Wasm_parser(std::istream& is) : is_{&is} { prime(); }
Construct(bytes, g) ==
  /\ pc = "new"
  /\ LET p == prime(Stream(bytes)) IN
       /\ is_' = p.is
       /\ cur_byte' = p.cur_byte
       /\ cur_offset' = p.cur_offset
  /\ pc' = "ready"
  /\ given' = g
  /\ UNCHANGED <<module, call, ret, shift_ub, cerr, writer_vars, process_vars>>

\* A call of a member function that leaves the module alone, on an input
\* made for it.  An exception returns no value.
Call(op, r) ==
  /\ pc = "ready"
  /\ \/ given.op \in {"any", op}
     \/ given.kind = "skip" /\ op = "parse_byte"
  /\ is_' = r.p.is
  /\ cur_byte' = r.p.cur_byte
  /\ cur_offset' = r.p.cur_offset
  /\ call' = [op |-> op, at |-> cur_offset]
  /\ ret' = [err |-> r.err, val |-> IF Failed(r) THEN <<>> ELSE r.val]
  /\ pc' = IF Failed(r) THEN "failed" ELSE "ready"
  /\ UNCHANGED <<module, shift_ub, cerr, given, writer_vars, process_vars>>

\* Zero-padded encodings of x, longer than the minimal one.
PaddedU == {[x |-> x, len |-> len] : x \in USamples, len \in 2..MaxBytes(32)}

ConstructInt ==
  /\ pc = "new"
  /\ \/ \E x \in USamples : Construct(ULEB(x), [kind |-> "uleb", op |-> "any", x |-> x])
     \/ \E x \in SSamples : Construct(SLEB(x), [kind |-> "sleb", op |-> "any", x |-> x])
     \/ \E e \in PaddedU :
          /\ e.len > Len(ULEB(e.x))
          /\ Construct(Leb(e.x, e.len), [kind |-> "upad", op |-> "any", x |-> e.x])
     \/ \E b \in RawInts : Construct(b, [kind |-> "raw", op |-> "any", x |-> {}])

ParseU8 == Call("parse_u8", parse_u8(Self))
ParseU16 == Call("parse_u16", parse_u16(Self))
ParseU32 == Call("parse_u32", parse_u32(Self))
ParseS8 == Call("parse_s8", parse_s8(Self))
ParseS16 == Call("parse_s16", parse_s16(Self))
ParseS33 == Call("parse_s33", parse_s33(Self))
ParseI32 == Call("parse_i32", parse_i32(Self))
ParseI64 == Call("parse_i64", parse_i64(Self))

NextInt ==
  \/ ConstructInt
  \/ ParseU8 \/ ParseU16 \/ ParseU32
  \/ ParseS8 \/ ParseS16 \/ ParseS33 \/ ParseI32 \/ ParseI64

SpecInt == Init /\ [][NextInt]_vars

(***************************************************************************)
(* Claims about the integer parsers                                        *)
(***************************************************************************)

UnsignedOps == {[op |-> "parse_u8", N |-> 8], [op |-> "parse_u16", N |-> 16],
                [op |-> "parse_u32", N |-> 32]}
SignedOps == {[op |-> "parse_s8", N |-> 8], [op |-> "parse_s16", N |-> 16],
              [op |-> "parse_i32", N |-> 32], [op |-> "parse_s33", N |-> 33],
              [op |-> "parse_i64", N |-> 64]}

\* The call `o` was made on a fresh parser (at offset 0).
Called(o) == call.op = o.op /\ call.at = 0
Returned(v) == ret.err = "" /\ ret.val = v

\* C1: for N in {8, 16, 32} and every x with 0 <= x < 2^N, parse_uN on the
\* minimal unsigned LEB128 encoding of x returns exactly x.
C1_UnsignedRoundTrip ==
  \A o \in UnsignedOps :
    (Called(o) /\ given.kind = "uleb" /\ InRangeU(given.x, o.N)) => Returned(given.x)

\* parse_u32 on FF FF FF FF 0F has returned 0xFFFFFFFF.
C1_Witness ==
  /\ Called([op |-> "parse_u32", N |-> 32])
  /\ given.kind = "uleb" /\ given.x = 0..31
  /\ is_.data = <<255, 255, 255, 255, 15>>
  /\ Returned(0..31)

\* C2: for N in {8, 16, 32, 33, 64} and every x with -2^(N-1) <= x < 2^(N-1),
\* the signed parser on the minimal signed LEB128 encoding of x returns
\* exactly x, also when the encoding has a byte at shift 28 or higher.
C2_SignedRoundTrip ==
  \A o \in SignedOps :
    (Called(o) /\ given.kind = "sleb" /\ InRangeS(given.x, o.N)) => Returned(given.x)

\* The byte of the encoding b (1-based index j) and the bits of the N-bit
\* budget that remain when the decoder reaches it.
Remaining(N, j) == N - 7 * (j - 1)
\* Byte j is the first byte with the high bit clear / carries the high bit
\* and no byte before it ended the number.
AllContinueBefore(b, j) == \A i \in 1..(j - 1) : b[i] >= 128
IsTrailing(b, j) == j \in 1..Len(b) /\ AllContinueBefore(b, j) /\ b[j] < 128
IsMiddle(b, j) == j \in 1..Len(b) /\ AllContinueBefore(b, j) /\ b[j] >= 128

ContinuesPastBudget(b, N) == \E j \in 1..Len(b) : IsMiddle(b, j) /\ Remaining(N, j) <= 7

\* C3: for N in {8, 16, 32} parse_uN rejects every encoding whose trailing
\* byte does not fit in the bits that remain of the N-bit budget and every
\* encoding with a continuation byte once 7 or fewer bits remain; zero-padded
\* encodings within the byte budget are accepted (with the value encoded).
C3_UnsignedRejects ==
  \A o \in UnsignedOps :
    Called(o) =>
      LET b == is_.data IN
      /\ ( \/ ContinuesPastBudget(b, o.N)
           \/ \E j \in 1..Len(b) :
                /\ IsTrailing(b, j)
                /\ Remaining(o.N, j) \in 1..7
                /\ b[j] >= 2^Remaining(o.N, j) )
         => ret.err = "InvalidLeb128"
      /\ (given.kind = "upad" /\ InRangeU(given.x, o.N) /\ Len(b) <= MaxBytes(o.N))
         => Returned(given.x)

\* parse_u32 has rejected FF FF FF FF 1F (a trailing byte of 5 bits, 4 remain).
C3_Witness ==
  /\ Called([op |-> "parse_u32", N |-> 32])
  /\ is_.data = <<255, 255, 255, 255, 31>>
  /\ ret.err = "InvalidLeb128"

\* Bits lo..6 of the byte t all equal its bit 6.
HighBitsEqualSign(t, lo) == \A i \in lo..6 : (i \in Bits(t)) <=> (6 \in Bits(t))

\* C4: when fewer than 8 bits remain at the trailing byte of an sN, the byte
\* is accepted only if its bits from the value's sign bit up are all zero
\* (bit 6 clear) or all one (bit 6 set); any other trailing byte, and any
\* continuation byte once 7 or fewer bits remain, is rejected.
C4_SignedRejects ==
  \A o \in SignedOps :
    Called(o) =>
      LET b == is_.data IN
      /\ ContinuesPastBudget(b, o.N) => ret.err = "InvalidLeb128"
      /\ \A j \in 1..Len(b) :
           (IsTrailing(b, j) /\ Remaining(o.N, j) \in 1..7) =>
             IF HighBitsEqualSign(b[j], Remaining(o.N, j) - 1)
             THEN ret.err = ""
             ELSE ret.err = "InvalidLeb128"

\* parse_s8 has rejected FF 7B (a negative trailing byte with a zero among
\* its unused bits).
C4_Witness ==
  /\ Called([op |-> "parse_s8", N |-> 8])
  /\ is_.data = <<255, 123>>
  /\ ret.err = "InvalidLeb128"

(***************************************************************************)
(* Inputs of the module parsers: encodings built from their structure      *)
(***************************************************************************)

\* A name / a vec(byte): length (below 128, one byte) and the bytes.
Str(bytes) == <<Len(bytes)>> \o bytes

\* A section with a declared size (below 128, one byte).
SectionDeclaring(id, declared, body) == <<id, declared>> \o body
Section(id, body) == SectionDeclaring(id, Len(body), body)

RECURSIVE Concat(_)
Concat(seqs) == IF seqs = <<>> THEN <<>> ELSE Head(seqs) \o Concat(Tail(seqs))

Last(s) == s[Len(s)]

\* Expressions (each ends with 0x0b).
SampleExprs ==
  { <<65, 0, 11>>,                                  \* i32.const 0
    <<66, 128, 1, 26, 11>>,                         \* i64.const 128; drop
    <<67, 0, 0, 128, 63, 26, 11>>,                  \* f32.const 1.0; drop
    <<68, 0, 0, 0, 0, 0, 0, 240, 63, 26, 11>>,      \* f64.const 1.0; drop
    <<2, 64, 1, 11, 11>>,                           \* block (void) nop end
    <<3, 0, 12, 0, 11, 11>>,                        \* loop (type 0) br 0 end
    <<65, 1, 4, 127, 65, 1, 5, 65, 2, 11, 26, 11>>, \* if (i32) .. else .. end
    <<65, 1, 4, 64, 1, 11, 11>>,                    \* if (void) nop end
    <<6, 64, 1, 7, 0, 1, 25, 1, 11, 11>>,           \* try .. catch 0 .. catch_all .. end
    <<6, 64, 8, 0, 24, 0, 11>>,                     \* try throw 0 delegate 0
    <<65, 0, 14, 2, 0, 1, 0, 11>>,                  \* br_table
    <<65, 0, 17, 0, 0, 11>>,                        \* call_indirect
    <<65, 0, 40, 2, 0, 26, 63, 0, 26, 11>>,         \* i32.load; memory.size
    <<65, 0, 254, 16, 2, 0, 26, 11>>,               \* i32.atomic.load
    <<252, 8, 0, 0, 252, 9, 0, 11>>,                \* memory.init; data.drop
    <<252, 10, 0, 0, 252, 11, 0, 11>> }             \* memory.copy; memory.fill

\* Single instructions.
SampleInstrs ==
  { <<1>>, <<16, 128, 1>>, <<2, 127, 65, 0, 11>>, <<6, 64, 7, 0, 25, 11>>,
    <<41, 3, 128, 1>>, <<254, 0, 2, 0>> }

\* One body for each non-custom section.
MainBody(id) ==
  CASE id = k_section_type -> <<1, 96, 1, 127, 1, 126>>
    [] id = k_section_import -> <<1>> \o Str(<<109>>) \o Str(<<110>>) \o <<0, 0>>
    [] id = k_section_function -> <<2, 0, 1>>
    [] id = k_section_table -> <<1, 112, 0, 1>>
    [] id = k_section_memory -> <<1, 1, 1, 2>>
    [] id = k_section_global -> <<1, 127, 0, 65, 0, 11>>
    [] id = k_section_export -> <<1>> \o Str(<<101>>) \o <<0, 0>>
    [] id = k_section_start -> <<0>>
    [] id = k_section_element -> <<1, 0, 65, 0, 11, 2, 0, 1>>
    [] id = k_section_code -> <<1, 7, 1, 1, 127, 32, 0, 26, 11>>
    [] id = k_section_data -> <<1, 0, 65, 0, 11, 2, 104, 105>>
    [] id = k_section_data_count -> <<1>>
    [] id = k_section_tag -> <<1, 0, 0>>

\* More bodies: the other import descriptors, limits, data modes, ...
MoreBodies(id) ==
  CASE id = k_section_type -> {<<2, 96, 0, 0, 96, 2, 125, 124, 1, 123>>}
    [] id = k_section_import ->
         { <<2>> \o Str(<<109>>) \o Str(<<110>>) \o <<3, 127, 1>>
                 \o Str(<<109>>) \o Str(<<>>) \o <<1, 112, 0, 1>>,
           <<2>> \o Str(<<109>>) \o Str(<<110>>) \o <<2, 1, 1, 2>>
                 \o Str(<<>>) \o Str(<<110>>) \o <<4, 0, 0>> }
    [] id = k_section_table -> {<<1, 111, 1, 1, 2>>}
    [] id = k_section_global -> {<<2, 126, 1, 66, 0, 11, 112, 0, 65, 0, 11>>}
    [] id = k_section_export ->
         {<<2>> \o Str(<<101>>) \o <<3, 0>> \o Str(<<102>>) \o <<4, 1>>}
    [] id = k_section_code -> {<<2, 2, 0, 11, 6, 2, 1, 127, 2, 124, 11>>}
    [] id = k_section_data ->
         {<<2, 1, 1, 104, 2, 0, 65, 0, 11, 0>>}
    [] OTHER -> {}

SecBodies(id) == {MainBody(id)} \cup MoreBodies(id)

NonCustomIds == 1..13

\* Custom section bodies, with the module names their "name" sections give
\* in module-name subsections, in order.
NameSec(subsections) == Str(Str_name) \o subsections
SubSec(id, payload) == <<id, Len(payload)>> \o payload
ModuleNameSub(name) == SubSec(k_name_subsection_module, Str(name))

Name_a == <<97>>
Name_b == <<98, 99>>

CustomBodies ==
  { [body |-> NameSec(ModuleNameSub(Name_a)), names |-> <<Name_a>>],
    [body |-> NameSec(ModuleNameSub(Name_b)), names |-> <<Name_b>>],
    [body |-> NameSec(ModuleNameSub(Name_a) \o ModuleNameSub(Name_b)),
     names |-> <<Name_a, Name_b>>],
    \* function names, an unrecognized subsection, the empty module name
    [body |-> NameSec(SubSec(k_name_subsection_functions, <<1, 0>> \o Str(<<102>>))
                      \o SubSec(5, <<7, 7>>) \o ModuleNameSub(<<>>)),
     names |-> << <<>> >>],
    \* local, global and data segment names, no module name
    [body |-> NameSec(SubSec(k_name_subsection_locals, <<1, 0, 1, 0>> \o Str(<<120>>))
                      \o SubSec(k_name_subsection_globals, <<0>>)
                      \o SubSec(k_name_subsection_data_segments, <<1, 0>> \o Str(<<100>>))),
     names |-> <<>>],
    \* an unrecognized subsection whose payload looks like a module name
    [body |-> NameSec(SubSec(5, ModuleNameSub(Name_a))), names |-> <<>>],
    \* the empty name section
    [body |-> NameSec(<<>>), names |-> <<>>],
    \* a custom section "nam" whose payload looks like a module name
    [body |-> Str(<<110, 97, 109>>) \o ModuleNameSub(Name_a), names |-> <<>>],
    \* a source mapping url
    [body |-> Str(Str_sourceMappingURL) \o Str(<<117>>), names |-> <<>>],
    \* a source mapping url followed by more bytes
    [body |-> Str(Str_sourceMappingURL) \o Str(<<117>>) \o <<1, 2>>, names |-> <<>>] }

\* The custom section put between the others.
Filler == Section(k_section_custom, Str(<<104, 105, 33>>) \o <<186>>)

Header == Magic \o Version

\* Valid encodings, each with the member function that decodes it.  `min` is
\* the shortest prefix of it that is given: the section parsers and decoders
\* get every prefix, parse_module gets the header and at least one byte of
\* the section after it.
Enc(op, full, min) == [op |-> op, full |-> full, min |-> min]

MultiByteU == {{7}, {14, 20}, 0..31}
MultiByteS == {{7}, {31}, (0..63) \ {6}, 0..62, {63}}

Encodings ==
       {Enc("parse_u32", ULEB(x), 0) : x \in MultiByteU}
  \cup {Enc("parse_s33", SLEB(x), 0) : x \in {{7}, (0..63) \ {6}}}
  \cup {Enc("parse_i64", SLEB(x), 0) : x \in MultiByteS}
  \cup {Enc("parse_f32", <<0, 0, 128, 63>>, 0)}
  \cup {Enc("parse_f64", <<0, 0, 0, 0, 0, 0, 240, 63>>, 0)}
  \cup {Enc("parse_name", Str(n), 0) : n \in {<<>>, <<104>>, <<104, 105, 33>>}}
  \cup {Enc("parse_instr", i, 0) : i \in SampleInstrs}
  \cup {Enc("parse_expr", e, 0) : e \in SampleExprs}
  \cup {Enc(SecOp(id), Section(id, b), 0) : <<id, b>> \in
          UNION {{<<id, b>> : b \in SecBodies(id)} : id \in NonCustomIds}}
  \cup {Enc("parse_customsec", Section(k_section_custom, c.body), 0) : c \in CustomBodies}
  \cup {Enc("parse_module", Header \o Section(id, MainBody(id)), Len(Header) + 1) :
          id \in NonCustomIds}
  \cup {Enc("parse_module", Header \o Section(k_section_custom, c.body), Len(Header) + 1) :
          c \in CustomBodies}

\* Every given prefix of every encoding.
EncInputs ==
  UNION {{[kind |-> "enc", op |-> e.op,
           x |-> [full |-> e.full, cut |-> Len(e.full) - n]] : n \in e.min..Len(e.full)}
         : e \in Encodings}

\* Sections declaring a size other than the size of their body, followed by
\* one more byte.
Declared(body) == {0, Len(body) - 1, Len(body), Len(body) + 1}
SizedInputs ==
       {[kind |-> "sized", op |-> SecOp(s[1]),
         x |-> [id |-> s[1], body |-> MainBody(s[1]), declared |-> s[2]]] :
          s \in UNION {{<<id, d>> : d \in Declared(MainBody(id))} : id \in NonCustomIds}}
  \cup {[kind |-> "sized", op |-> "parse_customsec",
         x |-> [id |-> k_section_custom, body |-> s[1].body, declared |-> s[2]]] :
          s \in UNION {{<<c, d>> : d \in Declared(c.body) \cup {2, 6, 7}} : c \in CustomBodies}}

\* The non-custom sections of a module: up to MaxSecs section ids in any
\* order, repetitions included.
MaxSecs == 2
IdSeqs == UNION {[1..n -> NonCustomIds] : n \in 0..MaxSecs}

\* Modules of the sections `ids`, bare or with a custom section before,
\* between and after them.
RECURSIVE Sections(_, _)
Sections(ids, filler) ==
  IF ids = <<>> THEN filler
  ELSE filler \o Section(Head(ids), MainBody(Head(ids))) \o Sections(Tail(ids), filler)

SecsInputs ==
  {[kind |-> "secs", op |-> "parse_module", x |-> [ids |-> ids, filler |-> f]] :
     ids \in IdSeqs, f \in {<<>>, Filler}}

\* Modules of up to MaxOrder sections out of OrderIds, in any order and
\* with repetitions, the last one with its body or with the body 0xff, bare
\* or with a custom section before, between and after them.
MaxOrder == 3
OrderIds ==
  {k_section_type, k_section_import, k_section_function, k_section_element,
   k_section_data_count, k_section_code}
SectionWith(id, last, body) == Section(id, IF last THEN body ELSE MainBody(id))
RECURSIVE SectionsEnding(_, _, _)
SectionsEnding(ids, filler, body) ==
  IF ids = <<>> THEN filler
  ELSE filler \o SectionWith(Head(ids), Len(ids) = 1, body)
       \o SectionsEnding(Tail(ids), filler, body)
OrderInputs ==
  {[kind |-> "order", op |-> "parse_module",
    x |-> [ids |-> ids, filler |-> f,
           body |-> IF garbage THEN <<255>> ELSE MainBody(ids[Len(ids)])]] :
     ids \in UNION {[1..n -> OrderIds] : n \in 1..MaxOrder}, f \in {<<>>, Filler},
     garbage \in BOOLEAN}

\* Modules of custom sections only, up to MaxCustoms of them.
MaxCustoms == 2
CustomSeqs == UNION {[1..n -> CustomBodies] : n \in 0..MaxCustoms}

\* The module names the custom sections give, in order.
RECURSIVE NamesOf(_)
NamesOf(cs) == IF cs = <<>> THEN <<>> ELSE Head(cs).names \o NamesOf(Tail(cs))

RECURSIVE CustomSections(_)
CustomSections(cs) ==
  IF cs = <<>> THEN <<>>
  ELSE Section(k_section_custom, Head(cs).body) \o CustomSections(Tail(cs))

CustomsInputs ==
  {[kind |-> "customs", op |-> "parse_module",
    x |-> [bytes |-> CustomSections(cs), names |-> NamesOf(cs)]] : cs \in CustomSeqs}

\* Valid modules followed by bytes that start no section.
Junk == {<<14>>, <<255>>, <<96, 0>>, <<200, 1, 2>>}
TrailingInputs ==
  {[kind |-> "trailing", op |-> "parse_module", x |-> [valid |-> v, junk |-> j]] :
     v \in {Header, Header \o Filler,
            Header \o Section(k_section_type, MainBody(k_section_type)),
            Header \o Section(k_section_data, MainBody(k_section_data)) \o Filler},
     j \in Junk}

\* The header with its last bytes missing, or with one byte changed.
\* Sections with 0xffffffff (ff ff ff ff 0f) for a count: the types of a
\* type section, the length of a custom section's name, the parameters of a
\* function type; and with 0x7fffffff for the first.
MaxCounts ==
  { <<k_section_type, 5, 255, 255, 255, 255, 15>>,
    <<k_section_custom, 5, 255, 255, 255, 255, 15>>,
    <<k_section_type, 7, 1, 96, 255, 255, 255, 255, 15>>,
    <<k_section_type, 5, 255, 255, 255, 255, 7>> }

HeaderInputs ==
       {[kind |-> "header", op |-> "parse_wasm", x |-> SubSeq(Header, 1, n)] :
          n \in 0..Len(Header)}
  \cup {[kind |-> "header", op |-> "parse_wasm", x |-> [Header EXCEPT ![i] = b]] :
          i \in 1..Len(Header), b \in {0, 1, 2, 97, 255}}
  \cup {[kind |-> "header", op |-> "parse_wasm", x |-> Header \o Filler]}
  \cup {[kind |-> "header", op |-> "parse_wasm", x |-> Header \o b] : b \in MaxCounts}

\* Custom sections with names other than "name" and "sourceMappingURL",
\* alone or after a name section, followed by the bytes `rest`.
OtherNames == {<<>>, <<110, 97, 109>>, <<110, 97, 109, 101, 115>>, <<104, 105, 33>>}
OtherPayloads == {<<>>, <<186>>, ModuleNameSub(Name_b), <<0, 200, 1>>}
OtherInputs ==
  {[kind |-> "other", op |-> "parse_customsec",
    x |-> [before |-> b, name |-> n, payload |-> c, rest |-> t]] :
     b \in {<<>>, Section(k_section_custom, NameSec(ModuleNameSub(Name_a)))},
     n \in OtherNames, c \in OtherPayloads,
     t \in {<<>>, <<11>>, <<0, 1, 0>>}}

\* The unsigned LEB128 encoding of a natural number.
RECURSIVE UlebNat(_)
UlebNat(n) == IF n < 128 THEN <<n>> ELSE <<128 + (n % 128)>> \o UlebNat(n \div 128)

\* An opcode as it is written: a primary opcode byte (prefix 0), or the
\* prefix 0xfc or 0xfe and a secondary opcode.
OpcodeBytes(prefix, code) == IF prefix = 0 THEN <<code>> ELSE <<prefix>> \o UlebNat(code)

\* Instructions by opcode: every primary opcode byte and secondary opcodes
\* around the ones parser.h declares, each followed by nothing or by zeros
\* and an end.  Alone, inside a block (0x02 0x40 ...) and inside an
\* expression after a nop.
SecondaryCodes(prefix) ==
  IF prefix = 0 THEN (0..255) \ {k_instr_ext_prefix, k_instr_atomic_prefix}
  ELSE IF prefix = k_instr_ext_prefix THEN 0..20 \cup {127, 128, 200}
  ELSE 0..80 \cup {127, 128, 255, 300}
OpcodeInputs ==
  {[kind |-> "opcode", op |-> IF pre = <<1>> THEN "parse_expr" ELSE "parse_instr",
    x |-> [pre |-> pre, prefix |-> pc_[1], code |-> pc_[2], post |-> post]] :
     pre \in {<<>>, <<2, 64>>, <<1>>},
     pc_ \in UNION {{<<prefix, code>> : code \in SecondaryCodes(prefix)} :
                      prefix \in {0, k_instr_ext_prefix, k_instr_atomic_prefix}},
     post \in {<<>>, <<0, 0, 0, 0, 11, 11>>}}

\* Inputs of skip_bytes, and of parse_byte before and after it: up to
\* MaxSkipLen bytes and the count to skip.
MaxSkipLen == 4
SkipCounts == {-1, 0, 1, 2, 3, 4, 5, 7}
SkipInputs ==
       {[kind |-> "skip", op |-> "skip_bytes", x |-> [bytes |-> b, n |-> n]] :
          b \in UNION {[1..len -> {7, 200}] : len \in 0..MaxSkipLen}, n \in SkipCounts}
  \cup {[kind |-> "skip", op |-> "skip_bytes", x |-> [bytes |-> b, n |-> n]] :
          b \in UNION {[1..len -> {7, 255}] : len \in 0..(MaxSkipLen - 1)}, n \in {1, 2}}

\* The bytes match_byte and maybe_match_byte are called with: 0xff is what
\* cur_byte holds at the end of the input.
ProbeBytes == {7, 200, 255}

\* Floating-point encodings: every combination of FloatBytes for an f32;
\* for an f64 every combination of 0x00 and 0xff, every single byte other
\* than zero, and the patterns of FloatPatterns.  Each alone and followed
\* by one more byte.
FloatBytes == {0, 1, 127, 128, 240, 255}
FloatPatterns ==
  { <<0, 72, 42, 68>>, <<0, 0, 0, 0>>, <<0, 0, 0, 128>>, <<0, 0, 128, 127>>,
    <<0, 0, 128, 255>>, <<0, 0, 192, 127>>,
    <<0, 0, 0, 0, 0, 73, 133, 64>>, <<0, 0, 0, 0, 0, 0, 0, 0>>,
    <<0, 0, 0, 0, 0, 0, 0, 128>>, <<0, 0, 0, 0, 0, 0, 240, 127>>,
    <<0, 0, 0, 0, 0, 0, 240, 255>>, <<0, 0, 0, 0, 0, 0, 233, 63>>,
    <<0, 0, 0, 192, 139, 245, 114, 65>>, <<1, 0, 0, 0, 0, 0, 248, 127>> }
FloatEncodings ==
       [1..4 -> FloatBytes]
  \cup [1..8 -> {0, 255}]
  \cup {[i \in 1..8 |-> IF i = k THEN b ELSE 0] : k \in 1..8, b \in FloatBytes \cup {2, 4, 8, 16, 32, 64}}
  \cup FloatPatterns
FloatInputs ==
  {[kind |-> "float", op |-> IF Len(e) = 4 THEN "parse_f32" ELSE "parse_f64",
    x |-> [bytes |-> e, post |-> post]] : e \in FloatEncodings, post \in {<<>>, <<9>>}}

\* "name" custom sections by their subsections, each with its id, the size
\* it declares and its payload.  A recognized subsection declares the size
\* of its payload or another one; an unrecognized one declares the size of
\* its payload, but for the last subsection, which declares `extra` more.
\* The section declares the size of its body; `rest` follows it.
MaxSubs == 3
Sub(id, declared, payload) == [id |-> id, declared |-> declared, payload |-> payload]
FuncNames == <<1, 0>> \o Str(<<102>>)
KnownSubs ==
  { Sub(k_name_subsection_module, Len(Str(Name_a)), Str(Name_a)),
    Sub(k_name_subsection_module, 0, Str(Name_b)),
    Sub(k_name_subsection_functions, Len(FuncNames), FuncNames),
    Sub(k_name_subsection_globals, Len(FuncNames) + 2, FuncNames) }
UnknownIds == {3, 200}
UnknownSubs ==
  {Sub(id, Len(payload), payload) :
     id \in UnknownIds, payload \in {<<>>, ModuleNameSub(Name_b)}}
SubBytes(sub) == <<sub.id, sub.declared>> \o sub.payload
RECURSIVE SubsBytes(_)
SubsBytes(subs) ==
  IF subs = <<>> THEN <<>> ELSE SubBytes(Head(subs)) \o SubsBytes(Tail(subs))
WithExtra(subs, extra) ==
  IF extra = 0 THEN subs
  ELSE [subs EXCEPT ![Len(subs)] = [@ EXCEPT !.declared = @ + extra]]
SubSeqs == UNION {[1..n -> KnownSubs \cup UnknownSubs] : n \in 0..MaxSubs}
NameSubsInputs ==
  {[kind |-> "namesubs", op |-> "parse_customsec",
    x |-> [subs |-> WithExtra(c[1], c[2]), extra |-> c[2], rest |-> t]] :
     c \in {d \in SubSeqs \X {0, 1, 3} :
              d[2] = 0 \/ (d[1] # <<>> /\ Last(d[1]).id \in UnknownIds)},
     t \in {<<>>, <<0>>, <<0, 0, 0>>}}
NameSubsBytes(x) == Section(k_section_custom, NameSec(SubsBytes(x.subs))) \o x.rest

\* Inner frames: the recognized subsections of a name section and the
\* entries of a code section, each declaring the size of its payload, no
\* bytes at all or more bytes than the payload has.  The enclosing section
\* declares the size of its body, or `off` more; a nop follows the section.
MaxFrames == 2
FramePayload(id) ==
  CASE id = k_name_subsection_module -> Str(Name_b)
    [] id = k_name_subsection_functions -> FuncNames
    [] id = k_name_subsection_locals -> <<1, 0, 1, 0>> \o Str(<<120>>)
    [] id = k_name_subsection_globals -> <<0>>
    [] id = k_name_subsection_data_segments -> <<1, 0>> \o Str(<<100>>)
Declarations(payload) == {Len(payload), 0, Len(payload) + 2}
FramedSubs ==
  UNION {{Sub(id, d, FramePayload(id)) : d \in Declarations(FramePayload(id))} :
           id \in {k_name_subsection_module, k_name_subsection_functions,
                    k_name_subsection_locals, k_name_subsection_globals,
                    k_name_subsection_data_segments}}
Funcs == {<<0, 11>>, <<1, 1, 127, 32, 0, 26, 11>>}
FramedFuncs ==
  UNION {{[declared |-> d, func |-> f] : d \in Declarations(f)} : f \in Funcs}
RECURSIVE EntriesBytes(_)
EntriesBytes(entries) ==
  IF entries = <<>> THEN <<>>
  ELSE <<Head(entries).declared>> \o Head(entries).func \o EntriesBytes(Tail(entries))
FrameInputs ==
       {[kind |-> "subframes", op |-> "parse_customsec", x |-> [frames |-> fs, off |-> off]] :
          fs \in UNION {[1..n -> FramedSubs] : n \in 1..MaxFrames}, off \in {0, 1}}
  \cup {[kind |-> "codeframes", op |-> "parse_codesec", x |-> [frames |-> fs, off |-> off]] :
          fs \in UNION {[1..n -> FramedFuncs] : n \in 1..MaxFrames}, off \in {0, 1}}
FrameBody(g) ==
  IF g.kind = "subframes" THEN NameSec(SubsBytes(g.x.frames))
  ELSE <<Len(g.x.frames)>> \o EntriesBytes(g.x.frames)
FrameBytes(g) ==
  SectionDeclaring(IF g.kind = "subframes" THEN k_section_custom ELSE k_section_code,
                   Len(FrameBody(g)) + g.x.off, FrameBody(g)) \o <<1>>

\* Control constructs, by their parts: opcode, block type, body, the body
\* after else (alt, <<>> for none), and for a try the handlers that follow
\* the body, each catch and catch_all with the body cbody.  A construct
\* other than try ends with end; `post` follows.
MaxHandlers == 3
HandlerKinds == {"catch", "catch_all", "delegate", "end"}
HandlerBytes(h, cbody) ==
  CASE h = "catch" -> <<k_instr_catch, 0>> \o cbody
    [] h = "catch_all" -> <<k_instr_catch_all>> \o cbody
    [] h = "delegate" -> <<k_instr_delegate, 0>>
    [] h = "end" -> <<k_instr_end>>
RECURSIVE HandlersBytes(_, _)
HandlersBytes(hs, cbody) ==
  IF hs = <<>> THEN <<>>
  ELSE HandlerBytes(Head(hs), cbody) \o HandlersBytes(Tail(hs), cbody)
ControlBodies == {<<>>, <<1>>, <<65, 11>>, <<2, 64, 11>>, <<6, 64, 24, 0>>}
Control(opcode, bt, body, alt, hs, cbody, post) ==
  [kind |-> "control", op |-> "parse_instr",
   x |-> [opcode |-> opcode, bt |-> bt, body |-> body, alt |-> alt, hs |-> hs,
          cbody |-> cbody, post |-> post]]
ControlInputs ==
       {Control(opcode, bt, body, <<>>, <<>>, <<>>, post) :
          opcode \in {k_instr_block, k_instr_loop, k_instr_if},
          bt \in {<<64>>, <<127>>, <<0>>}, body \in ControlBodies, post \in {<<>>, <<1>>}}
  \cup {Control(k_instr_if, <<64>>, body, <<alt>>, <<>>, <<>>, post) :
          body \in ControlBodies, alt \in ControlBodies, post \in {<<>>, <<1>>}}
  \cup {Control(k_instr_try, <<64>>, body, <<>>, hs, cbody, <<>>) :
          body \in {<<>>, <<1>>, <<65, 11>>},
          hs \in UNION {[1..n -> HandlerKinds] : n \in 0..MaxHandlers},
          cbody \in {<<>>, <<65, 7>>}}
ControlBytes(x) ==
  <<x.opcode>> \o x.bt \o x.body
  \o (IF x.alt = <<>> THEN <<>> ELSE <<k_instr_else>> \o x.alt[1])
  \o (IF x.opcode = k_instr_try THEN HandlersBytes(x.hs, x.cbody) ELSE <<k_instr_end>>)
  \o x.post

\* The bytes of an input.
BytesOf(g) ==
  CASE g.kind = "float" -> g.x.bytes \o g.x.post
    [] g.kind = "control" -> ControlBytes(g.x)
    [] g.kind \in {"subframes", "codeframes"} -> FrameBytes(g)
    [] g.kind = "order" -> Header \o SectionsEnding(g.x.ids, g.x.filler, g.x.body)
    [] g.kind = "namesubs" -> NameSubsBytes(g.x)
    [] g.kind = "enc" -> SubSeq(g.x.full, 1, Len(g.x.full) - g.x.cut)
    [] g.kind = "sized" -> SectionDeclaring(g.x.id, g.x.declared, g.x.body) \o <<11>>
    [] g.kind = "secs" -> Header \o Sections(g.x.ids, g.x.filler)
    [] g.kind = "customs" -> Header \o g.x.bytes
    [] g.kind = "trailing" -> g.x.valid \o g.x.junk
    [] g.kind = "header" -> g.x
    [] g.kind = "opcode" ->
         g.x.pre \o OpcodeBytes(g.x.prefix, g.x.code) \o g.x.post
    [] g.kind = "skip" -> g.x.bytes
    [] g.kind = "other" ->
         g.x.before \o Section(k_section_custom, Str(g.x.name) \o g.x.payload) \o g.x.rest

ModuleInputs ==
  EncInputs \cup SizedInputs \cup SecsInputs \cup CustomsInputs \cup TrailingInputs
  \cup OtherInputs \cup OpcodeInputs \cup SkipInputs \cup FloatInputs \cup ControlInputs
  \cup NameSubsInputs \cup OrderInputs \cup FrameInputs

(***************************************************************************)
(* Actions of the module parsers                                           *)
(***************************************************************************)

ConstructModule ==
  /\ pc = "new"
  /\ \E g \in ModuleInputs : Construct(BytesOf(g), g)

\* A call of a member function that works on a module and writes to
\* std::cerr: r.val is Out(module, cerr).  A module passed by reference
\* keeps what the call did to it when an exception leaves the call; a
\* module returned is not assigned then.
CallOut(op, at, r, by_reference) ==
  /\ is_' = r.p.is
  /\ cur_byte' = r.p.cur_byte
  /\ cur_offset' = r.p.cur_offset
  /\ call' = [op |-> op, at |-> at]
  /\ ret' = [err |-> r.err, val |-> <<>>]
  /\ module' = IF by_reference \/ ~Failed(r) THEN r.val.module ELSE module
  /\ cerr' = cerr \o r.val.cerr
  /\ pc' = IF Failed(r) THEN "failed" ELSE "ready"
  /\ UNCHANGED <<shift_ub, writer_vars>>

\* parser.skip_bytes(n), with the count that comes with the input.
SkipBytes ==
  /\ given.kind = "skip"
  /\ Call("skip_bytes", skip_bytes(Self, given.x.n))

ParseByte == Call("parse_byte", parse_byte(Self))

\* A call of a member function with the argument arg, on an input of
\* skip_bytes.
CallArg(op, arg, r) ==
  /\ pc = "ready"
  /\ given.kind = "skip"
  /\ is_' = r.p.is
  /\ cur_byte' = r.p.cur_byte
  /\ cur_offset' = r.p.cur_offset
  /\ call' = [op |-> op, at |-> cur_offset, arg |-> arg]
  /\ ret' = [err |-> r.err, val |-> IF Failed(r) THEN <<>> ELSE r.val]
  /\ pc' = IF Failed(r) THEN "failed" ELSE "ready"
  /\ UNCHANGED <<module, shift_ub, cerr, given, writer_vars, process_vars>>

MatchByte == \E b \in ProbeBytes : CallArg("match_byte", b, match_byte(Self, b))
MaybeMatchByte ==
  \E b \in ProbeBytes : CallArg("maybe_match_byte", b, maybe_match_byte(Self, b))
ParseF32 == Call("parse_f32", parse_f32(Self))
ParseF64 == Call("parse_f64", parse_f64(Self))
ParseName == Call("parse_name", parse_name(Self))
ParseInstr == Call("parse_instr", invoke("parse_instr", Self))
ParseExpr == Call("parse_expr", invoke("parse_expr", Self))

\* parser.parse_typesec(), parser.parse_importsec(), ...: the parser of a
\* non-custom section.
ParseSection ==
  \E id \in NonCustomIds : Call(SecOp(id), known_section(Self, id))

\* parser.parse_customsec(module)
ParseCustomsec ==
  /\ pc = "ready"
  /\ given.op = "parse_customsec"
  /\ CallOut("parse_customsec", cur_offset,
             invoke("parse_customsec", WithVal(Self, Out(module, <<>>))), TRUE)
  /\ UNCHANGED <<given, process_vars>>

\* parser.parse_module(): the module is returned, or an exception leaves.
ParseModule ==
  /\ pc = "ready"
  /\ given.op = "parse_module"
  /\ CallOut("parse_module", cur_offset, invoke("parse_module", Self), FALSE)
  /\ UNCHANGED <<given, process_vars>>

\* parse_wasm(is): a parser is constructed on the stream and parse_module
\* is called on it.
ParseWasm ==
  /\ pc = "new"
  /\ \E g \in HeaderInputs :
       /\ given' = g
       /\ CallOut("parse_wasm", 0,
                  invoke("parse_module", Ok(prime(Stream(BytesOf(g))), <<>>)), FALSE)
  /\ UNCHANGED process_vars

NextModule ==
  \/ ConstructModule
  \/ ParseU32 \/ ParseS33 \/ ParseI64 \/ ParseF32 \/ ParseF64 \/ ParseName
  \/ ParseInstr \/ ParseExpr
  \/ ParseCustomsec \/ ParseSection
  \/ SkipBytes \/ ParseByte \/ MatchByte \/ MaybeMatchByte
  \/ ParseModule \/ ParseWasm

SpecModule == Init /\ [][NextModule]_vars

(***************************************************************************)
(* Claims about truncation, sections and modules                           *)
(***************************************************************************)

\* The member function the input was made for has been called on a fresh
\* parser.
FreshCall == call.op = given.op /\ call.at = 0

\* A module has been decoded from the start of the input.
Decoded == call.op \in {"parse_module", "parse_wasm"} /\ call.at = 0

\* Every encoding of the catalog is valid: its decoder accepts it and reads
\* all of it.
EncodingsDecode ==
  (FreshCall /\ given.kind = "enc" /\ given.x.cut = 0) =>
    (ret.err = "" /\ cur_offset = Len(is_.data))

\* C5: an input made by removing one or more trailing bytes from a valid
\* encoding (integer, float, name, section, instruction body) is rejected
\* with UnexpectedEof, whatever the decoder was in the middle of.
C5_TruncationIsUnexpectedEof ==
  (FreshCall /\ given.kind = "enc" /\ given.x.cut > 0) => ret.err = "UnexpectedEof"

SectionOps == {SecOp(id) : id \in 0..13}

\* A section parser has been called on an input that starts with its section
\* id and a one-byte size; the body, if it was run to its end, ended at
\* cur_offset.
SectionCalled ==
  /\ call.at = 0 /\ call.op \in SectionOps
  /\ Len(is_.data) >= 2 /\ call.op = SecOp(is_.data[1]) /\ is_.data[2] < 128
DeclaredSize == is_.data[2]
ConsumedSize == cur_offset - 2

\* C6: parse_section returns normally only when the bytes its body consumed
\* are as many as the declared size; when they differ it fails with the
\* size-mismatch error and returns no result.
C6_SectionSizeChecked ==
  /\ SectionCalled =>
       /\ ret.err = "" => ConsumedSize = DeclaredSize
       /\ ret.err = "SectionSizeMismatch" => (ConsumedSize # DeclaredSize /\ ret.val = <<>>)
  /\ (SectionCalled /\ given.kind = "sized" /\ given.x.id # k_section_custom) =>
       IF given.x.declared = Len(given.x.body)
       THEN ret.err = ""
       ELSE ret.err = "SectionSizeMismatch" /\ ConsumedSize = Len(given.x.body)

\* parse_typesec has rejected a type section that declares one byte more
\* than its body has.
C6_Witness ==
  /\ SectionCalled /\ call.op = "parse_typesec"
  /\ given.kind = "sized" /\ given.x.declared = Len(given.x.body) + 1
  /\ ConsumedSize = Len(given.x.body)
  /\ ret.err = "SectionSizeMismatch"

\* C7: parse_module returns a module only at the end of the input; bytes
\* after the last section it recognizes are the trailing-bytes error.
C7_NoSuccessBeforeEnd ==
  Decoded =>
    /\ ret.err = "" => (is_.eofbit /\ cur_offset = Len(is_.data))
    /\ given.kind = "trailing" =>
         (ret.err = "TrailingBytes" /\ cur_offset = Len(given.x.valid))

\* parse_module has rejected a module of a type section followed by 0x0e.
C7_Witness ==
  /\ Decoded /\ given.kind = "trailing"
  /\ given.x.valid = Header \o Section(k_section_type, MainBody(k_section_type))
  /\ given.x.junk = <<14>>
  /\ ret.err = "TrailingBytes"

\* C8: parse_wasm succeeds only on inputs that start with 00 61 73 6D
\* 01 00 00 00; the empty input and every proper prefix of these 8 bytes are
\* rejected, and exactly these 8 bytes give a module with no name and no
\* types.
C8_MagicAndVersion ==
  (call.op = "parse_wasm" /\ call.at = 0) =>
    /\ ret.err = "" =>
         (Len(is_.data) >= 8 /\ SubSeq(is_.data, 1, 8) = <<0, 97, 115, 109, 1, 0, 0, 0>>)
    /\ is_.data = <<0, 97, 115, 109, 1, 0, 0, 0>> =>
         (ret.err = "" /\ module.name = <<>> /\ module.types = <<>>)

\* parse_wasm has returned the empty module for the 8 bytes.
C8_Witness ==
  /\ call.op = "parse_wasm" /\ call.at = 0
  /\ is_.data = <<0, 97, 115, 109, 1, 0, 0, 0>>
  /\ ret.err = "" /\ module.name = <<>> /\ module.types = <<>>

\* The module-name subsections of "name" custom sections the input has.
GivenNames ==
  CASE given.kind = "customs" -> given.x.names
    [] OTHER -> <<>>

\* C9: after a successful decode the module's name is present exactly when
\* the input had a module-name subsection in a custom section named "name",
\* and is then the name of the last of them; nothing else sets it.
C9_NameFromNameSection ==
  (Decoded /\ ret.err = "" /\ given.kind \in {"customs", "secs", "header"}) =>
    module.name = IF GivenNames = <<>> THEN <<>> ELSE <<Last(GivenNames)>>

\* A module with module names "a" and then "bc" has been decoded.
C9_Witness ==
  /\ Decoded /\ ret.err = "" /\ given.kind = "customs"
  /\ given.x.names = <<Name_a, Name_b>>
  /\ module.name = <<Name_b>>

\* The place of a section id in an order.
Rank(order, id) == CHOOSE i \in 1..Len(order) : order[i] = id
InOrder(order, ids) ==
  \A i \in 1..(Len(ids) - 1) : Rank(order, ids[i]) < Rank(order, ids[i + 1])

\* type, import, function, table, memory, tag, global, export, start,
\* element, code, data, data-count
ClaimedOrder == <<1, 2, 3, 4, 5, 13, 6, 7, 8, 9, 10, 11, 12>>
\* ... element, data-count, code, data
AmendedOrder == <<1, 2, 3, 4, 5, 13, 6, 7, 8, 9, 12, 10, 11>>

\* C10 as stated: a module of valid sections, with or without custom
\* sections around them, is accepted exactly when each non-custom section
\* occurs at most once and they come in the order type, import, function,
\* table, memory, tag, global, export, start, element, code, data, data-count.
C10_ClaimedSectionOrder ==
  (Decoded /\ given.kind = "secs") => (ret.err = "" <=> InOrder(ClaimedOrder, given.x.ids))

\* C10 amended: ... in the order type, import, function, table, memory, tag,
\* global, export, start, element, data-count, code, data.
C10_SectionOrder ==
  (Decoded /\ given.kind = "secs") => (ret.err = "" <=> InOrder(AmendedOrder, given.x.ids))

\* A module of a data-count section and then a code section, with custom
\* sections before, between and after, has been accepted.
C10_Witness ==
  /\ Decoded /\ given.kind = "secs"
  /\ given.x.ids = <<k_section_data_count, k_section_code>>
  /\ given.x.filler # <<>>
  /\ ret.err = ""

(***************************************************************************)
(* The text format writer (src/lib/text_format.{h,cpp})                    *)
(*                                                                         *)
(* A character is its code (0..255) and a std::string is a sequence of     *)
(* them, as the names the decoder reads are.  Every member function of     *)
(* Text_format_writer is an operator on writers w = [os, need_ws,          *)
(* indent_level, just_closed_sexp, toks, err], in the way of the parse     *)
(* functions: applied to a writer that an exception has left (err # "")    *)
(* it is that writer.                                                      *)
(***************************************************************************)

\* The printable ASCII characters but the grave accent (0x60), which a
\* string of this language cannot hold: 0x20 to 0x5f and 0x61 to 0x7e.
PrintableTo5f ==
  " !\"#$%&'()*+,-./0123456789:;<=>?@ABCDEFGHIJKLMNOPQRSTUVWXYZ[\\]^_"
PrintableFrom61 == "abcdefghijklmnopqrstuvwxyz{|}~"
CodeOf(ch) ==
  IF ch = "\n" THEN 10
  ELSE IF \E i \in 1..Len(PrintableTo5f) : SubSeq(PrintableTo5f, i, i) = ch
  THEN 31 + CHOOSE i \in 1..Len(PrintableTo5f) : SubSeq(PrintableTo5f, i, i) = ch
  ELSE 96 + CHOOSE i \in 1..Len(PrintableFrom61) : SubSeq(PrintableFrom61, i, i) = ch
CharCodes ==
  [ch \in {SubSeq(PrintableTo5f, i, i) : i \in 1..Len(PrintableTo5f)}
          \cup {SubSeq(PrintableFrom61, i, i) : i \in 1..Len(PrintableFrom61)}
          \cup {"\n"} |-> CodeOf(ch)]
\* The characters of a string literal.
Text(str) == [i \in 1..Len(str) |-> CharCodes[SubSeq(str, i, i)]]

\* *os_ << text
put(w, text) == [w EXCEPT !.os = @ \o text]

\* need_ws = ...; just_closed_sexp = ...; and, for the history, what the
\* call wrote from position `from` of the output on.
done(w, nw, jc, kind, from) ==
  [w EXCEPT !.need_ws = nw, !.just_closed_sexp = jc,
            !.toks = Append(@, [kind |-> kind, from |-> from, to |-> Len(w.os),
                                indent |-> w.indent_level])]

lex_maybe_ws_never(w) == w
lex_maybe_ws(w) ==
  IF Failed(w) THEN w
  ELSE IF w.need_ws \/ w.just_closed_sexp
  THEN [put(w, Text(" ")) EXCEPT !.need_ws = FALSE, !.just_closed_sexp = FALSE]
  ELSE w

tok_keyword(w, keyword) ==
  LET s == lex_maybe_ws(w) IN
  IF Failed(w) THEN w
  ELSE done(put(s, keyword), TRUE, FALSE, "keyword", Len(s.os) + 1)

tok_left_paren_indents_by_1(w) ==
  LET s == lex_maybe_ws(w) IN
  IF Failed(w) THEN w
  ELSE done([put(s, Text("(")) EXCEPT !.indent_level = @ + 1],
            FALSE, FALSE, "(", Len(s.os) + 1)
tok_left_paren(w) ==
  LET s == lex_maybe_ws(w) IN
  IF Failed(w) THEN w
  ELSE done([put(s, Text("(")) EXCEPT !.indent_level = @ + 2],
            FALSE, FALSE, "(", Len(s.os) + 1)

tok_right_paren_not_closed(w) ==
  IF Failed(w) THEN w
  ELSE done([put(w, Text(")")) EXCEPT !.indent_level = @ - 2],
            FALSE, FALSE, ")", Len(w.os) + 1)
tok_right_paren(w) ==
  IF Failed(w) THEN w
  ELSE done([put(w, Text(")")) EXCEPT !.indent_level = @ - 2],
            FALSE, TRUE, ")", Len(w.os) + 1)

Spaces(n) == [i \in 1..n |-> 32]

\* A run of 2^32 + indent_level spaces (indent_level < 0) in the output.
ManySpaces == -1

\* for (auto i = 0; i != indent_level; ++i): with a negative indent_level
\* i overflows, which is undefined: the loop either never ends or, when the
\* int wraps around, ends after 2^32 + indent_level spaces.
LoopOutcomes == {"never ends", "wraps"}

lex_nl_no_indent(w, loop_ub) ==
  IF Failed(w) THEN w
  ELSE done(put(w, Text("\n")), FALSE, FALSE, "nl", Len(w.os) + 1)
lex_nl(w, loop_ub) ==
  IF Failed(w) THEN w
  ELSE IF w.indent_level >= 0
  THEN done(put(w, Text("\n") \o Spaces(w.indent_level)), FALSE, FALSE, "nl",
            Len(w.os) + 1)
  ELSE IF loop_ub = "wraps"
  THEN done(put(w, Text("\n") \o <<ManySpaces>>), FALSE, FALSE, "nl", Len(w.os) + 1)
  ELSE [put(w, Text("\n")) EXCEPT !.err = "NoReturn"]

lex_blockcomment(w, comment) ==
  LET s == lex_maybe_ws(w) IN
  IF Failed(w) THEN w
  ELSE done(put(s, Text("(;") \o comment \o Text(";)")), TRUE, TRUE, "comment",
            Len(s.os) + 1)

\* absl::StreamFormat("\\%02x", c): the char as an unsigned char, in two
\* lower-case hexadecimal digits.
HexDigit(d) == IF d < 10 THEN 48 + d ELSE 87 + d
Hex02(c) == <<HexDigit(c \div 16), HexDigit(c % 16)>>

\* The switch of tok_string on one character.
escaped(c) ==
  CASE c = 9 -> Text("\\t")
    [] c = 10 -> Text("\\n")
    [] c = 13 -> Text("\\r")
    [] c = 34 -> Text("\\\"")
    [] c = 39 -> Text("\\'")
    [] c = 92 -> Text("\\\\")
    [] OTHER -> IF c >= 32 /\ c < 127 THEN <<c>> ELSE Text("\\") \o Hex02(c)

RECURSIVE escape(_)
escape(str) == IF str = <<>> THEN <<>> ELSE escaped(Head(str)) \o escape(Tail(str))

tok_string(w, str) ==
  LET s == lex_maybe_ws(w) IN
  IF Failed(w) THEN w
  ELSE done(put(s, Text("\"") \o escape(str) \o Text("\"")), TRUE, FALSE, "string",
            Len(s.os) + 1)

tok_name(w, name) == tok_string(w, name)

\* "!#$%&\'*+-./:<=>?@\\^_`|~" (0x60 is the grave accent)
valid_puncts_and_comma == Text("!#$%&'*+-./:<=>?@\\^_") \o <<96>> \o Text("|~,")
valid_puncts == Text("!#$%&'*+-./:<=>?@\\^_") \o <<96>> \o Text("|~")

\* is_digit || is_upper_alpha || is_lower_alpha || is_valid_punct
idchar(c) ==
  \/ c \in 48..57 \/ c \in 65..90 \/ c \in 97..122
  \/ \E i \in 1..Len(valid_puncts) : valid_puncts[i] = c

\* A tok_id that writes the white space before it looks at the characters.
tok_id_space_first(w, id) ==
  LET s == lex_maybe_ws(w) IN
  IF Failed(w) THEN w
  ELSE IF id = <<>> THEN [s EXCEPT !.err = "InvalidId"]
  ELSE IF \E i \in 1..Len(id) : ~idchar(id[i]) THEN [s EXCEPT !.err = "InvalidId"]
  ELSE done(put(s, Text("$") \o id), TRUE, FALSE, "id", Len(s.os) + 1)

tok_id(w, id) ==
  LET s == lex_maybe_ws(w) IN
  IF Failed(w) THEN w
  ELSE IF id = <<>> THEN [w EXCEPT !.err = "InvalidId"]
  ELSE IF \E i \in 1..Len(id) : ~idchar(id[i]) THEN [w EXCEPT !.err = "InvalidId"]
  ELSE done(put(s, Text("$") \o id), TRUE, FALSE, "id", Len(s.os) + 1)

\* enum Ast_valtype, and a value of the enum's range that names no type.
Valtypes == {"i32", "i64", "f32", "f64", "v128", "funcref", "externref"}
NoValtype == "7"

write_valtype(w, valtype) ==
  IF Failed(w) THEN w
  ELSE IF valtype \in Valtypes THEN tok_keyword(w, Text(valtype))
  ELSE [w EXCEPT !.err = "UnrecognizedValtype"]

\* for (const auto& param : functype.params) { write_valtype(param); }
RECURSIVE write_valtypes(_, _)
write_valtypes(w, valtypes) ==
  IF Failed(w) \/ valtypes = <<>> THEN w
  ELSE write_valtypes(write_valtype(w, Head(valtypes)), Tail(valtypes))

\* if (not valtypes.empty()) { tok_left_paren(); tok_keyword(keyword); ... tok_right_paren(); }
write_resulttype(w, keyword, valtypes) ==
  IF Failed(w) \/ valtypes = <<>> THEN w
  ELSE tok_right_paren(write_valtypes(tok_keyword(tok_left_paren(w), keyword), valtypes))

write_functype(w, functype) ==
  tok_right_paren(
    write_resulttype(
      write_resulttype(tok_keyword(tok_left_paren(w), Text("func")),
                       Text("param"), functype.params),
      Text("result"), functype.results))

\* absl::StrFormat("%d", typeidx)
RECURSIVE Decimal(_)
Decimal(n) == IF n < 10 THEN <<48 + n>> ELSE Decimal(n \div 10) \o <<48 + (n % 10)>>

write_type(w, typeidx, functype, loop_ub) ==
  tok_right_paren(
    write_functype(
      lex_blockcomment(tok_keyword(tok_left_paren(lex_nl(w, loop_ub)), Text("type")),
                       Decimal(typeidx)),
      functype))

write_import(w, import, loop_ub) ==
  tok_right_paren(
    tok_name(tok_name(tok_keyword(tok_left_paren(lex_nl(w, loop_ub)), Text("import")),
                      import.module),
             import.name))

\* for (auto typeidx = Ast_typeidx{0}; typeidx != std::ssize(module.types); ++typeidx)
RECURSIVE write_types(_, _, _, _)
write_types(w, types, typeidx, loop_ub) ==
  IF Failed(w) \/ typeidx = Len(types) THEN w
  ELSE write_types(write_type(w, typeidx, types[typeidx + 1], loop_ub), types,
                   typeidx + 1, loop_ub)

\* for (const auto& import : module.imports) { write_import(import); }
RECURSIVE write_imports(_, _, _)
write_imports(w, imports, loop_ub) ==
  IF Failed(w) \/ imports = <<>> THEN w
  ELSE write_imports(write_import(w, Head(imports), loop_ub), Tail(imports), loop_ub)

write_module(w, m, loop_ub) ==
  LET head == tok_keyword(tok_left_paren(w), Text("module"))
      named == IF m.name # <<>> THEN tok_id(head, m.name[1]) ELSE head
  IN tok_right_paren(
       write_imports(write_types(named, m.types, 0, loop_ub), m.imports, loop_ub))

(***************************************************************************)
(* Inputs and actions of the writer: a writer is constructed, then its     *)
(* member functions are called on it.                                      *)
(***************************************************************************)

\* The calls of token primitives in a row (write_module comes after at
\* most MaxBefore of them).
MaxToks == 4
MaxBefore == 2

Keywords == {Text("module")}
Strings == {<<40, 34, 9, 200>>}
Names == {Text("n")}
Comments == {Text("0")}

\* Identifiers: the empty one, every single character, and longer ones.
SomeIds == {Text("a"), Text("a;")}
AllIds ==
  {<<>>} \cup {<<c>> : c \in 0..255}
  \cup {Text("hello"), Text("$x1"), Text("a.b_c-d"), Text("!#$%&'*+-./:<=>?@\\^_|~"),
        <<97, 96>>, Text("bad bad"), Text("a,b"), Text("a;"), Text("[a]"),
        Text("f(x)"), Text("{a}"), Text("a\"b"), <<97, 0>>, <<195, 169>>, <<97, 10>>}

FuncTypes ==
  [none |-> [params |-> <<>>, results |-> <<>>],
   both |-> [params |-> <<"i32", "i64", "v128">>, results |-> <<"f32", "f64">>],
   refs |-> [params |-> <<>>, results |-> <<"funcref", "externref">>],
   one |-> [params |-> <<"i32">>, results |-> <<>>],
   bad |-> [params |-> <<"i32", NoValtype>>, results |-> <<"i32">>]]

ModuleNames == {<<>>, <<Text("hello")>>, <<Text("$")>>, <<Text("bad bad")>>, << <<>> >>}
ModuleTypes ==
  { <<>>, <<FuncTypes.both, FuncTypes.refs>>, <<FuncTypes.none>>,
    <<FuncTypes.one, FuncTypes.none, FuncTypes.both>>,
    <<FuncTypes.bad>>, <<FuncTypes.refs, FuncTypes.bad>>,
    [i \in 1..11 |-> FuncTypes.none] }
ModuleImports ==
  { <<>>, <<[module |-> Text("m"), name |-> Text("n")]>>,
    <<[module |-> Text("a)(b"), name |-> Text("(")],
      [module |-> <<>>, name |-> <<34, 9, 200>>]>> }
WriterModules ==
       {[name |-> n, types |-> t, imports |-> <<>>] : n \in ModuleNames, t \in ModuleTypes}
  \cup {[name |-> n, types |-> t, imports |-> i] :
          n \in {<<>>, <<Text("hello")>>},
          t \in {<<>>, <<FuncTypes.both, FuncTypes.refs>>},
          i \in ModuleImports}

\* The writer in its variables.
Writer ==
  [os |-> os, need_ws |-> need_ws, indent_level |-> indent_level,
   just_closed_sexp |-> just_closed_sexp, toks |-> toks, err |-> ""]

\* explicit Text_format_writer(std::ostream& os) : os_{&os} {}
\* The input says what the writer is used for: token primitives in a row
\* ("tokens", write_module after them) or one or two identifiers, after a
\* keyword or not ("ids").
ConstructWriter ==
  /\ pc = "new"
  /\ pc' = "writer"
  /\ \E kind \in {"tokens", "ids"} : given' = [kind |-> kind, op |-> "any", x |-> {}]
  /\ UNCHANGED <<is_, cur_byte, cur_offset, module, call, ret, shift_ub, cerr,
                 writer_vars, process_vars>>

\* A call of a member function of the writer with argument arg; w is the
\* writer it leaves.  The writer can be used on after an exception; nothing
\* comes after a call that does not return.
Write(op, arg, w) ==
  /\ pc = "writer"
  /\ pc' = IF w.err = "NoReturn" THEN "failed" ELSE "writer"
  /\ os' = w.os
  /\ need_ws' = w.need_ws
  /\ indent_level' = w.indent_level
  /\ just_closed_sexp' = w.just_closed_sexp
  /\ toks' = w.toks
  /\ call' = [op |-> op, at |-> Len(toks), arg |-> arg]
  /\ ret' = [err |-> w.err, val |-> <<>>]
  /\ UNCHANGED <<is_, cur_byte, cur_offset, shift_ub, cerr, given, process_vars>>

\* A token primitive is called, before any module is written.
Primitive(op, arg, w) ==
  /\ Len(toks) < MaxToks
  /\ module = NoModule
  /\ Write(op, arg, w)
  /\ UNCHANGED module

TokKeyword ==
  /\ given.kind = "ids" => toks = <<>>
  /\ \E keyword \in Keywords :
       Primitive("tok_keyword", keyword, tok_keyword(Writer, keyword))
TokLeftParen == given.kind = "tokens" /\ Primitive("tok_left_paren", <<>>, tok_left_paren(Writer))
TokRightParen == given.kind = "tokens" /\ Primitive("tok_right_paren", <<>>, tok_right_paren(Writer))
LexNl ==
  /\ given.kind = "tokens"
  /\ \E loop_ub \in LoopOutcomes : Primitive("lex_nl", <<>>, lex_nl(Writer, loop_ub))
LexBlockcomment ==
  /\ given.kind = "tokens"
  /\ \E comment \in Comments :
       Primitive("lex_blockcomment", comment, lex_blockcomment(Writer, comment))
TokString ==
  /\ given.kind = "tokens"
  /\ \E str \in Strings : Primitive("tok_string", str, tok_string(Writer, str))
TokName ==
  /\ given.kind = "tokens"
  /\ \E name \in Names : Primitive("tok_name", name, tok_name(Writer, name))
TokId ==
  /\ given.kind = "ids" => (Len(toks) <= 1 /\ ret.err = "")
  /\ \E id \in IF given.kind = "ids" THEN AllIds ELSE SomeIds :
       Primitive("tok_id", id, tok_id(Writer, id))

\* writer.write_module(module), once.
WriteModule ==
  /\ given.kind = "tokens"
  /\ Len(toks) <= MaxBefore
  /\ module = NoModule
  /\ \E m \in WriterModules, loop_ub \in LoopOutcomes :
       /\ module' = m
       /\ Write("write_module", <<>>, write_module(Writer, m, loop_ub))

NextWriter ==
  \/ ConstructWriter
  \/ TokKeyword \/ TokLeftParen \/ TokRightParen \/ LexNl \/ LexBlockcomment
  \/ TokString \/ TokName \/ TokId
  \/ WriteModule

SpecWriter == Init /\ [][NextWriter]_vars

(***************************************************************************)
(* Claims about the writer                                                 *)
(***************************************************************************)

\* The characters an identifier may have: ASCII letters and digits and
\* ! # $ % & ' * + - . / : < = > ? @ \ ^ _ ` | ~
ClaimedIdChars ==
  48..57 \cup 65..90 \cup 97..122
  \cup {33, 35, 36, 37, 38, 39, 42, 43, 45, 46, 47, 58, 60, 61, 62, 63, 64, 92, 94,
        95, 96, 124, 126}
ClaimedId(id) == id # <<>> /\ \A i \in 1..Len(id) : id[i] \in ClaimedIdChars

\* write_module has been called on a writer that had written nothing.
ModuleWritten == call.op = "write_module" /\ call.at = 0

\* The module written has no name or a valid one, and value types that
\* Ast_valtype names.
WellFormed(m) ==
  /\ m.name # <<>> => ClaimedId(m.name[1])
  /\ \A i \in 1..Len(m.types) :
       /\ \A j \in 1..Len(m.types[i].params) : m.types[i].params[j] \in Valtypes
       /\ \A j \in 1..Len(m.types[i].results) : m.types[i].results[j] \in Valtypes

\* The text of a module as C14 has it.
RECURSIVE ExpectedValtypes(_)
ExpectedValtypes(valtypes) ==
  IF valtypes = <<>> THEN <<>>
  ELSE Text(" ") \o Text(Head(valtypes)) \o ExpectedValtypes(Tail(valtypes))
ExpectedFunc(functype) ==
  Text("(func")
  \o (IF functype.params # <<>>
      THEN Text(" (param") \o ExpectedValtypes(functype.params) \o Text(")") ELSE <<>>)
  \o (IF functype.results # <<>>
      THEN Text(" (result") \o ExpectedValtypes(functype.results) \o Text(")") ELSE <<>>)
  \o Text(")")
RECURSIVE ExpectedTypes(_, _)
ExpectedTypes(types, i) ==
  IF i = Len(types) THEN <<>>
  ELSE Text("\n  (type (;") \o Decimal(i) \o Text(";) ") \o ExpectedFunc(types[i + 1])
       \o Text(")") \o ExpectedTypes(types, i + 1)
RECURSIVE ExpectedImports(_)
ExpectedImports(imports) ==
  IF imports = <<>> THEN <<>>
  ELSE Text("\n  (import \"") \o escape(Head(imports).module) \o Text("\" \"")
       \o escape(Head(imports).name) \o Text("\")") \o ExpectedImports(Tail(imports))
ExpectedModule(m) ==
  Text("(module") \o (IF m.name # <<>> THEN Text(" $") \o m.name[1] ELSE <<>>)
  \o ExpectedTypes(m.types, 0) \o ExpectedImports(m.imports) \o Text(")")

\* C14: for every module with a valid or absent name, the output of
\* write_module is exactly "(module", " $name" if there is a name, for each
\* type at index i a newline, two spaces and "(type (;i;) (func" with
\* " (param T...)" only if there are params and " (result T...)" only if
\* there are results, and "))", then each import on a line of its own, then
\* ")" and no newline after it.
C14_ModuleText ==
  (ModuleWritten /\ WellFormed(module)) => (ret.err = "" /\ os = ExpectedModule(module))

\* The module $hello of the types (i32 i64 v128) -> (f32 f64) and
\* () -> (funcref externref) and the import "m" "n" has been written.
C14_Witness ==
  /\ ModuleWritten /\ ret.err = ""
  /\ module = [name |-> <<Text("hello")>>,
               types |-> <<FuncTypes.both, FuncTypes.refs>>,
               imports |-> <<[module |-> Text("m"), name |-> Text("n")]>>]
  /\ os = Text("(module $hello\n  (type (;0;) (func (param i32 i64 v128) (result f32 f64)))")
          \o Text("\n  (type (;1;) (func (result funcref externref)))")
          \o Text("\n  (import \"m\" \"n\"))")

\* The positions of the output inside string literals.
StringPositions ==
  UNION {toks[t].from..toks[t].to : t \in {u \in 1..Len(toks) : toks[u].kind = "string"}}
Everywhere == 1..Len(os)

\* Every "(" at one of the positions `at` of the output has a matching ")"
\* at one of them, and the other way round.
Balanced(at) ==
  LET opens == {i \in at : os[i] = 40}
      closes == {i \in at : os[i] = 41}
  IN /\ Cardinality(opens) = Cardinality(closes)
     /\ \A k \in closes :
          Cardinality({i \in opens : i < k}) >= Cardinality({i \in closes : i <= k})
\* ")(" is nowhere at two of the positions `at` that are next to each other.
NoCloseOpen(at) == \A i \in at : ~(os[i] = 41 /\ i + 1 \in at /\ os[i + 1] = 40)

\* C15 as stated: for every module, in the text write_module produces every
\* "(" has a matching ")" and ")(" never occur adjacently.
C15_ClaimedParens ==
  ModuleWritten => (Balanced(Everywhere) /\ NoCloseOpen(Everywhere))

\* C15 amended: for every module that write_module accepts, outside the
\* string literals (the import names) every "(" of the text has a matching
\* ")" and ")(" never occur adjacently.
C15_ParensOutsideStrings ==
  (ModuleWritten /\ ret.err = "") =>
    /\ Balanced(Everywhere \ StringPositions)
    /\ NoCloseOpen(Everywhere \ StringPositions)

\* A module with a type that has params and results and with the imports
\* "a)(b" "(" and "" "\"\t\xc8" has been written.
C15_Witness ==
  /\ ModuleWritten /\ ret.err = ""
  /\ Len(module.types) = 2 /\ module.types[1] = FuncTypes.both
  /\ Len(module.imports) = 2 /\ module.imports[1].module = Text("a)(b")
  /\ ~Balanced(Everywhere) /\ Balanced(Everywhere \ StringPositions)

\* The tokens written: what the token primitives other than lex_nl wrote.
IsToken(t) == toks[t].kind # "nl"
\* Tokens i and j are written one after the other.
Consecutive(i, j) ==
  /\ i \in 1..Len(toks) /\ j \in 1..Len(toks) /\ i < j
  /\ IsToken(i) /\ IsToken(j)
  /\ \A t \in (i + 1)..(j - 1) : ~IsToken(t)
WhiteSpace == {32, 10, ManySpaces}
\* What is between two tokens is white space, of `least` characters or more.
Separated(i, j, least) ==
  /\ toks[j].from - toks[i].to - 1 >= least
  /\ \A k \in (toks[i].to + 1)..(toks[j].from - 1) : os[k] \in WhiteSpace

\* C16 as stated: after any calls of the token primitives, no two tokens
\* written one after the other are adjacent in the output: there is at
\* least one white space character between them.
C16_ClaimedSeparation ==
  \A i, j \in 1..Len(toks) : Consecutive(i, j) => Separated(i, j, 1)

\* C16 amended: ... there is at least one white space character between
\* them unless the first is "(" or the second is ")"; these are adjacent
\* to their neighbour when no lex_nl was called between the two.
C16_Separation ==
  \A i, j \in 1..Len(toks) :
    Consecutive(i, j) =>
      IF toks[i].kind = "(" \/ toks[j].kind = ")"
      THEN /\ Separated(i, j, 0)
           /\ j = i + 1 => toks[j].from = toks[i].to + 1
           /\ j > i + 1 => Separated(i, j, 1)
      ELSE Separated(i, j, 1)

\* Four primitives in a row have written "module (;0;) "n" $a".
C16_Witness ==
  /\ given.kind = "tokens" /\ Len(toks) = 4
  /\ os = Text("module (;0;) \"n\" $a")
  /\ toks[2].kind = "comment" /\ toks[3].kind = "string" /\ toks[4].kind = "id"

\* The "(" written by tok_left_paren less the ")" written by
\* tok_right_paren, among the first k calls of the history.
Open(k) ==
  Cardinality({t \in 1..k : toks[t].kind = "("})
  - Cardinality({t \in 1..k : toks[t].kind = ")"})
\* indent_level when the last call was made.
IndentAtCall == IF call.at = 0 THEN 0 ELSE toks[call.at].indent

\* C17: in every state of the writer indent_level is twice the number of
\* "(" written by tok_left_paren less the number of ")" written by
\* tok_right_paren, and so it was after every call; during a write_module
\* that was called with a non-negative indent_level (0 on a new writer) it
\* is never negative, lex_nl's loop ends, and when write_module returns
\* normally indent_level is what it was at the call (0 on a new writer).
C17_IndentLevel ==
  /\ indent_level = 2 * Open(Len(toks))
  /\ \A t \in 1..Len(toks) : toks[t].indent = 2 * Open(t)
  /\ (call.op = "write_module" /\ IndentAtCall >= 0) =>
       /\ \A t \in (call.at + 1)..Len(toks) : toks[t].indent >= 0
       /\ ret.err # "NoReturn"
       /\ ret.err = "" => indent_level = IndentAtCall

\* write_module has written a module of three types, after "(" and
\* "module" were written with the primitives.
C17_Witness ==
  /\ call.op = "write_module" /\ call.at = 2 /\ ret.err = ""
  /\ toks[1].kind = "(" /\ Len(module.types) = 3
  /\ indent_level = 2
  /\ \E t \in 3..Len(toks) : toks[t].indent = 8

\* C18: tok_id(s) succeeds and writes "$" and s, after a space when one is
\* due, if and only if s is not empty and every character of s is an ASCII
\* letter, an ASCII digit or one of ! # $ % & ' * + - . / : < = > ? @ \ ^ _
\* ` | ~; for every other s it fails with the invalid-identifier error and
\* writes nothing.
C18_TokId ==
  [][(pc = "writer" /\ call'.op = "tok_id") =>
       IF ClaimedId(call'.arg)
       THEN /\ ret'.err = ""
            /\ os' = os \o (IF need_ws \/ just_closed_sexp THEN <<32>> ELSE <<>>)
                        \o <<36>> \o call'.arg
       ELSE /\ ret'.err = "InvalidId"
            /\ UNCHANGED writer_vars]_vars

\* tok_id("$") has written "$$" and the tok_id("a,b") after it has failed.
C18_Witness ==
  /\ given.kind = "ids" /\ call.op = "tok_id" /\ call.arg = Text("a,b")
  /\ ret.err = "InvalidId" /\ os = Text("$$")

(***************************************************************************)
(* The command line tool (src/wasmtoolbox.cpp)                             *)
(***************************************************************************)

EXIT_FAILURE == 1

\* The process ends by returning from main or by std::exit, or is ended by
\* std::abort (SIGABRT).
Exit(code) == [how |-> "exit", code |-> code]
Abort == [how |-> "abort", code |-> 6]

\* What the process has done when it ends: what it wrote to std::cout and
\* std::cerr, how it ended, and the outcome of parse_wasm if it was called.
Ended(out, log, status, parsed) ==
  [cout |-> out, cerr |-> log, exit_status |-> status, parsed |-> parsed]

\* usage(): the usage message and std::exit(EXIT_FAILURE).
usage == Ended(<<>>, <<[message |-> "Usage"]>>, Exit(EXIT_FAILURE), <<>>)

\* inline auto parse_wasm(std::istream& is) -> Ast_module
parse_wasm(is) == invoke("parse_module", Ok(prime(is), <<>>))

\* main after parse_wasm(is), parsed being the outcome of that call.  main
\* catches nothing: an exception of the decoder ends in std::terminate,
\* which aborts the process.  The module returned is not used.
parsed_wasm(parsed) ==
  IF Failed(parsed)
  THEN Ended(<<>>, Append(parsed.val.cerr, [message |-> "terminate called"]),
             Abort, <<parsed>>)
  ELSE Ended(<<>>, parsed.val.cerr, Exit(0), <<parsed>>)

\* main(argc, argv), argv[0] included, where the file named has the bytes
\* file.bytes if it can be opened.
main(argv, file) ==
  IF Len(argv) < 2 THEN usage
  ELSE IF argv[2] = "wasm2wat"
  THEN IF Len(argv) < 3 THEN usage
       ELSE IF ~file.opens
       THEN Ended(<<>>, <<[message |-> "Error: could not open file", filename |-> argv[3]]>>,
                  Exit(EXIT_FAILURE), <<>>)
       ELSE parsed_wasm(parse_wasm(Stream(file.bytes)))
  ELSE usage

\* Command lines and files.
CommandLines ==
  { <<"wasmtoolbox">>, <<"wasmtoolbox", "wasm2wat">>, <<"wasmtoolbox", "wat2wasm", "f.wat">>,
    <<"wasmtoolbox", "wasm2wat", "f.wasm">>, <<"wasmtoolbox", "wasm2wat", "f.wasm", "more">> }
Files ==
  {[opens |-> FALSE, bytes |-> <<>>]}
  \cup {[opens |-> TRUE, bytes |-> BytesOf(g)] : g \in HeaderInputs}
  \cup {[opens |-> TRUE, bytes |-> BytesOf(g)] :
          g \in CustomsInputs \cup TrailingInputs \cup OtherInputs}
CliInputs ==
  {[kind |-> "cli", op |-> "main", x |-> [argv |-> a, file |-> f]] :
     a \in CommandLines, f \in Files}

\* The process has run from its start to the end `end`.
Exited(end) ==
  /\ cout' = cout \o end.cout
  /\ cerr' = cerr \o end.cerr
  /\ exit_status' = end.exit_status
  /\ IF end.parsed # <<>>
     THEN /\ is_' = end.parsed[1].p.is
          /\ cur_byte' = end.parsed[1].p.cur_byte
          /\ cur_offset' = end.parsed[1].p.cur_offset
          /\ module' = IF Failed(end.parsed[1]) THEN module ELSE end.parsed[1].val.module
          /\ ret' = [err |-> end.parsed[1].err, val |-> <<>>]
     ELSE /\ ret' = [err |-> "", val |-> <<>>]
          /\ UNCHANGED <<is_, cur_byte, cur_offset, module>>
  /\ call' = [op |-> "main", at |-> 0]
  /\ pc' = "exited"
  /\ UNCHANGED <<shift_ub, writer_vars, stage>>

Main ==
  /\ pc = "new"
  /\ \E g \in CliInputs : given' = g /\ Exited(main(g.x.argv, g.x.file))

NextCli == Main

SpecCli == Init /\ [][NextCli]_vars

\* A new writer.
NewWriter ==
  [os |-> <<>>, need_ws |-> FALSE, indent_level |-> 0, just_closed_sexp |-> FALSE,
   toks |-> <<>>, err |-> ""]

\* wasmtoolbox wasm2wat <file> has run.
Wasm2wat ==
  /\ call.op = "main" /\ given.kind = "cli"
  /\ Len(given.x.argv) >= 3 /\ given.x.argv[2] = "wasm2wat"

\* C19 as stated: wasmtoolbox wasm2wat <file> runs the decoder and then the
\* writer on the decoded module, prints the text form to standard output
\* and ends with exit code 0; on any decode error or I/O error it ends with
\* exit code 1.
C19_ClaimedWasm2wat ==
  Wasm2wat =>
    IF given.x.file.opens /\ ret.err = ""
    THEN /\ exit_status = Exit(0)
         /\ cout = write_module(NewWriter, module, "wraps").os
    ELSE exit_status = Exit(EXIT_FAILURE)

\* A custom section of an "other" input, with a name that is neither "name"
\* nor "sourceMappingURL", is about to be parsed: the parser stands at its id.
AtOtherSection ==
  pc = "ready" /\ given.kind = "other" /\ cur_offset = Len(given.x.before)
OtherSectionEnd ==
  Len(given.x.before) + 2 + Len(Str(given.x.name)) + Len(given.x.payload)

\* C11: for a custom section whose name is neither "name" nor
\* "sourceMappingURL", parse_customsec succeeds, leaves the module (and
\* std::cerr) as they were, and leaves the cursor at the first byte after the
\* declared payload: the lookahead is the byte that follows the section, or
\* the end of the input when nothing follows.
C11_OtherCustomSkipped ==
  [][AtOtherSection =>
       /\ call'.op = "parse_customsec" /\ ret'.err = ""
       /\ module' = module /\ cerr' = cerr
       /\ cur_offset' = OtherSectionEnd
       /\ IF given.x.rest = <<>> THEN is_'.eofbit
          ELSE ~is_'.eofbit /\ cur_byte' = given.x.rest[1]
                /\ is_'.pos = OtherSectionEnd + 1]_vars

\* A custom section "nam" with a payload that looks like a module name has
\* been skipped after a name section that named the module "a"; the byte
\* 0x0b follows it.
C11_Witness ==
  /\ given.kind = "other" /\ given.x.before # <<>>
  /\ given.x.name = <<110, 97, 109>> /\ given.x.payload = ModuleNameSub(Name_b)
  /\ given.x.rest = <<11>>
  /\ call = [op |-> "parse_customsec", at |-> Len(given.x.before)]
  /\ ret.err = "" /\ module.name = <<Name_a>>
  /\ cur_offset = OtherSectionEnd /\ cur_byte = 11

\* The opcodes parser.h declares no instruction for: the primary bytes (the
\* block delimiters else, catch, end, delegate and catch_all among them, and
\* the two prefixes left out) and the secondary opcodes after each prefix.
UndeclaredOpcodes(prefix) ==
  IF prefix = 0
  THEN {5, 7, 10, 11} \cup 18..25 \cup 28..31 \cup 37..39 \cup {64} \cup 91..96
       \cup {105, 120, 123} \cup 137..147 \cup 149..152 \cup {157, 158}
       \cup 164..166 \cup {168, 169, 174, 175} \cup 179..181 \cup 196..251
       \cup {253, 255}
  ELSE IF prefix = k_instr_ext_prefix THEN Nat \ 8..11
  ELSE Nat \ {0, 1, 16, 17, 18, 23, 24, 25, 30, 37, 51, 65, 67, 72, 74}

\* parse_instr or parse_expr has been called on an "opcode" input whose
\* opcode is read as an instruction's: it is not the end that closes the
\* enclosing block or expression.
OpcodeCalled ==
  /\ FreshCall /\ given.kind = "opcode"
  /\ ~(given.x.pre # <<>> /\ given.x.prefix = 0 /\ given.x.code = k_instr_end)
OpcodeEnd == Len(given.x.pre) + Len(OpcodeBytes(given.x.prefix, given.x.code))

\* C12: parse_instr fails with the unknown-opcode error for every primary
\* opcode byte and every secondary opcode after 0xfc or 0xfe that is not
\* recognized, also inside a block or an expression; it stops right after
\* the opcode and reads nothing of what follows.  Recognized opcodes do not
\* give this error.
C12_UnknownOpcodeRejected ==
  OpcodeCalled =>
    IF given.x.code \in UndeclaredOpcodes(given.x.prefix)
    THEN ret.err = "UnknownOpcode" /\ pc = "failed" /\ cur_offset = OpcodeEnd
    ELSE ret.err # "UnknownOpcode"

\* parse_expr has rejected the expression nop, 0xfe 0x02, ... at the
\* secondary opcode 2, which the threads opcodes of parser.h do not have.
C12_Witness ==
  /\ OpcodeCalled /\ call.op = "parse_expr"
  /\ given.x.prefix = k_instr_atomic_prefix /\ given.x.code = 2
  /\ given.x.post # <<>>
  /\ ret.err = "UnknownOpcode" /\ cur_offset = 3

\* The bytes from the cursor to the end of the input, the lookahead included.
BytesLeft == IF is_.eofbit THEN 0 ELSE Len(is_.data) - cur_offset

\* skip_bytes(given.x.n) is called in this step.
SkipStep == given.kind = "skip" /\ pc = "ready" /\ call'.op = "skip_bytes"

\* C13: skip_bytes(n) with n >= 1 and at least n bytes remaining adds n to
\* cur_offset and makes the byte n positions later the lookahead; when
\* exactly n bytes remained the cursor is at the end of the input (the next
\* parse_byte fails with UnexpectedEof); with n <= 0 nothing changes; with
\* fewer than n bytes remaining it fails with UnexpectedEof.
C13_SkipBytes ==
  [][SkipStep =>
       LET n == given.x.n IN
       CASE n <= 0 ->
              /\ ret'.err = ""
              /\ UNCHANGED <<is_, cur_byte, cur_offset>>
         [] n >= 1 /\ n < BytesLeft ->
              /\ ret'.err = "" /\ cur_offset' = cur_offset + n
              /\ ~is_'.eofbit /\ cur_byte' = is_.data[cur_offset + n + 1]
              /\ parse_byte(Ok([is |-> is_', cur_byte |-> cur_byte',
                                cur_offset |-> cur_offset'], <<>>)).val
                   = is_.data[cur_offset + n + 1]
         [] n >= 1 /\ n = BytesLeft ->
              /\ ret'.err = "" /\ cur_offset' = cur_offset + n
              /\ cur_offset' = Len(is_.data) /\ is_'.eofbit
              /\ parse_byte(Ok([is |-> is_', cur_byte |-> cur_byte',
                                cur_offset |-> cur_offset'], <<>>)).err
                   = "UnexpectedEof"
         [] OTHER -> ret'.err = "UnexpectedEof" /\ pc' = "failed"]_vars

\* skip_bytes(2) was called twice on four bytes, the second call skipped
\* exactly up to the end of the input, and the parse_byte after it failed.
C13_Witness ==
  /\ given.kind = "skip" /\ given.x.n = 2 /\ Len(given.x.bytes) = 4
  /\ call = [op |-> "parse_byte", at |-> 4]
  /\ ret.err = "UnexpectedEof" /\ cur_offset = 4 /\ is_.eofbit

\* The bytes a floating-point parser reads and the bits of its type.
FloatSize(op) == IF op = "parse_f32" THEN 4 ELSE 8

\* parse_f32 or parse_f64 was called and returned a value.
FloatParsed(op) == call.op = op /\ ret.err = ""

\* C20: parse_f32 consumes exactly 4 bytes and parse_f64 exactly 8, and bit
\* 8k + j of the value returned is bit j of the k-th byte consumed (k from
\* 0), for every combination of bytes, those of +0, -0, +infinity and
\* -infinity included.
C20_FloatBits ==
  \A op \in {"parse_f32", "parse_f64"} :
    FloatParsed(op) =>
      LET n == FloatSize(op)
          byte(k) == is_.data[call.at + k + 1]
      IN /\ cur_offset = call.at + n
         /\ is_.pos = IF call.at + n < Len(is_.data) THEN call.at + n + 1 ELSE Len(is_.data)
         /\ call.at + n < Len(is_.data) => cur_byte = byte(n)
         /\ ret.val = {i \in 0..(8 * n - 1) : (byte(i \div 8) \div 2^(i % 8)) % 2 = 1}

\* parse_f64 has returned -infinity (sign and exponent bits set) from
\* 00 00 00 00 00 00 f0 ff, and parse_f32 can return -0 and +infinity.
C20_Witness ==
  /\ FloatParsed("parse_f64") /\ given.kind = "float"
  /\ given.x.bytes = <<0, 0, 0, 0, 0, 0, 240, 255>> /\ given.x.post = <<9>>
  /\ ret.val = 52..63 /\ cur_offset = 8 /\ cur_byte = 9

\* parse_instr has returned normally from a call on a control opcode.
ControlOpcodes == {k_instr_block, k_instr_loop, k_instr_if, k_instr_try}
ControlParsed ==
  /\ call.op = "parse_instr" /\ ret.err = ""
  /\ is_.data[call.at + 1] \in ControlOpcodes
LastConsumed == is_.data[cur_offset]

\* The first handler of a try input that ends the try, 0 if there is none.
Terminator(hs) ==
  IF \E i \in 1..Len(hs) : hs[i] \in {"delegate", "end"}
  THEN CHOOSE i \in 1..Len(hs) :
         /\ hs[i] \in {"delegate", "end"}
         /\ \A j \in 1..(i - 1) : hs[j] \notin {"delegate", "end"}
  ELSE 0

\* The outermost construct of a control input was parsed.
OuterParsed == ControlParsed /\ given.kind = "control" /\ call.at = 0
OuterDelegate ==
  /\ given.x.opcode = k_instr_try
  /\ Terminator(given.x.hs) # 0 /\ given.x.hs[Terminator(given.x.hs)] = "delegate"

\* C21 as stated: whenever parse_instr returns normally after reading a
\* control opcode (block, loop, if, try), the last byte it consumed is the
\* construct's terminating end (0x0B), for every variant, every try form
\* included.
C21_ClaimedEndConsumed == ControlParsed => LastConsumed = k_instr_end

\* C21, amended: a block, a loop, an if with or without else, and a try
\* that does not end in delegate have the construct's end as the last byte
\* consumed; a try that ends in delegate has the delegate's label index as
\* the last bytes consumed and no end.
C21_EndConsumed ==
  /\ (ControlParsed /\ is_.data[call.at + 1] # k_instr_try) => LastConsumed = k_instr_end
  /\ OuterParsed =>
       /\ cur_offset = Len(is_.data) - Len(given.x.post)
                         - (IF given.x.opcode = k_instr_try
                            THEN Len(HandlersBytes(SubSeq(given.x.hs, Terminator(given.x.hs) + 1,
                                                          Len(given.x.hs)), given.x.cbody))
                            ELSE 0)
       /\ IF OuterDelegate
          THEN is_.data[cur_offset - 1] = k_instr_delegate /\ LastConsumed = 0
          ELSE LastConsumed = k_instr_end

\* An if with a nested block, and after else an i32.const 11 whose
\* immediate is the byte 0x0B, has been parsed to its own end.
C21_Witness ==
  /\ OuterParsed /\ given.x.opcode = k_instr_if
  /\ given.x.body = <<2, 64, 11>> /\ given.x.alt = << <<65, 11>> >> /\ given.x.post = <<1>>
  /\ cur_offset = 9 /\ LastConsumed = k_instr_end /\ cur_byte = 1

\* The handlers of a try input up to the one that ends the try are those
\* of the grammar: delegate alone, or catch clauses, then catch_all
\* clauses, then end.
HandlersAccepted(hs) ==
  LET t == Terminator(hs) IN
  /\ t # 0
  /\ \/ t = 1 /\ hs[1] = "delegate"
     \/ /\ hs[t] = "end"
        /\ \A i \in 1..(t - 1), j \in 1..(t - 1) :
             (hs[i] = "catch_all" /\ hs[j] = "catch") => j < i

\* parse_instr was called on the try of a control input.
TryCalled ==
  /\ call.op = "parse_instr" /\ call.at = 0
  /\ given.kind = "control" /\ given.x.opcode = k_instr_try

\* C22: after a try body parse_instr accepts exactly delegate labelidx, or
\* zero or more catch clauses followed by zero or more catch_all clauses
\* followed by end; a first handler catch_all is accepted, a catch after a
\* catch_all is rejected.
C22_TryHandlers ==
  TryCalled =>
    /\ ret.err = "" <=> HandlersAccepted(given.x.hs)
    /\ ret.err = "" =>
         cur_offset = 2 + Len(given.x.body)
                        + Len(HandlersBytes(SubSeq(given.x.hs, 1, Terminator(given.x.hs)),
                                            given.x.cbody))

\* A try whose first handler is catch_all has been accepted.
C22_Witness ==
  /\ TryCalled /\ ret.err = ""
  /\ given.x.hs = <<"catch_all", "catch_all", "end">> /\ given.x.cbody = <<65, 7>>
  /\ given.x.body = <<1>> /\ cur_offset = 10

\* parse_customsec was called on a name section given by its subsections.
NameSubsCalled ==
  call.op = "parse_customsec" /\ call.at = 0 /\ given.kind = "namesubs"

\* The offset of the i-th subsection: after the section's id and size and
\* the name "name".
SubOffset(subs, i) == 2 + Len(Str(Str_name)) + Len(SubsBytes(SubSeq(subs, 1, i - 1)))

\* One warning for each subsection with an id other than 0, 1, 2, 7 and 9.
RECURSIVE WarningsFrom(_, _)
WarningsFrom(subs, i) ==
  IF i > Len(subs) THEN <<>>
  ELSE (IF subs[i].id \in {0, 1, 2, 7, 9} THEN <<>>
        ELSE <<[warning |-> "Unrecognized namesubsection", id |-> subs[i].id,
                at |-> SubOffset(subs, i), skipping |-> subs[i].declared]>>)
       \o WarningsFrom(subs, i + 1)

\* The names the module-name subsections give, in order.
RECURSIVE ModuleNamesFrom(_, _)
ModuleNamesFrom(subs, i) ==
  IF i > Len(subs) THEN <<>>
  ELSE (IF subs[i].id = 0 THEN <<Tail(subs[i].payload)>> ELSE <<>>)
       \o ModuleNamesFrom(subs, i + 1)

\* The module after the name section: its name is that of the last
\* module-name subsection.
NamedBy(subs) ==
  LET names == ModuleNamesFrom(subs, 1) IN
  IF names = <<>> THEN NoModule ELSE [NoModule EXCEPT !.name = <<Last(names)>>]

SectionEnd == Len(is_.data) - Len(given.x.rest)

\* C23: a subsection of a name section with an id other than 0, 1, 2, 7 and
\* 9 does not end the decode: a warning is written, exactly the size it
\* declares is skipped, the module is as the other subsections leave it and
\* the next subsection is decoded; the section fails only when the skip
\* goes past the end of the input or past the end of the section.
C23_UnknownSubsectionSkipped ==
  NameSubsCalled =>
    /\ cerr = WarningsFrom(given.x.subs, 1)
    /\ module = NamedBy(given.x.subs)
    /\ ret.err = IF given.x.extra = 0 THEN ""
                 ELSE IF given.x.extra <= Len(given.x.rest) THEN "SectionSizeMismatch"
                 ELSE "UnexpectedEof"
    /\ ret.err # "UnexpectedEof" => cur_offset = SectionEnd + given.x.extra

\* A name section with the module name "a", then an unrecognized
\* subsection holding what reads as the module name "bc", then function
\* names, has been decoded: one warning, and the name is "a".
C23_Witness ==
  /\ NameSubsCalled /\ ret.err = ""
  /\ Len(given.x.subs) = 3
  /\ given.x.subs[1] = Sub(k_name_subsection_module, 2, Str(Name_a))
  /\ given.x.subs[2] = Sub(200, 5, ModuleNameSub(Name_b))
  /\ given.x.subs[3].id = k_name_subsection_functions
  /\ module.name = <<Name_a>>
  /\ cerr = <<[warning |-> "Unrecognized namesubsection", id |-> 200, at |-> 11,
               skipping |-> 5]>>

\* The cursor and the stream agree: the stream has given the bytes consumed
\* and the lookahead, or has ended with every byte consumed.
CursorAgrees ==
  IF is_.eofbit THEN cur_offset = Len(is_.data) /\ is_.pos = Len(is_.data)
  ELSE /\ cur_offset < Len(is_.data) /\ is_.pos = cur_offset + 1
       /\ cur_byte = is_.data[cur_offset + 1]

\* A parser is constructed, or one of the four cursor functions is called,
\* in this step.
CursorOps == {"parse_byte", "match_byte", "maybe_match_byte", "skip_bytes"}
CursorConstructed == pc = "new" /\ pc' = "ready" /\ given'.kind = "skip"
CursorStep == pc = "ready" /\ given.kind = "skip" /\ call'.op \in CursorOps
NextIs(b) == ~is_.eofbit /\ is_.data[cur_offset + 1] = b

\* C24: through every sequence of parse_byte, match_byte, maybe_match_byte
\* and skip_bytes calls cur_offset is the number of bytes consumed, and
\* cur_byte is the byte at cur_offset unless the input has ended;
\* parse_byte returns that byte and adds 1 to cur_offset, and fails with
\* UnexpectedEof at the end of the input, cur_offset unchanged.
C24_Cursor ==
  [][/\ CursorConstructed => CursorAgrees'
     /\ CursorStep =>
          /\ ret'.err = "" => CursorAgrees'
          /\ call'.op = "parse_byte" =>
               IF is_.eofbit
               THEN ret'.err = "UnexpectedEof" /\ cur_offset' = cur_offset
               ELSE /\ ret' = [err |-> "", val |-> is_.data[cur_offset + 1]]
                    /\ cur_offset' = cur_offset + 1
          /\ call'.op = "match_byte" =>
               /\ cur_offset' = cur_offset + (IF is_.eofbit THEN 0 ELSE 1)
               /\ ret'.err = "" <=> NextIs(call'.arg)
          /\ call'.op = "maybe_match_byte" =>
               cur_offset' = cur_offset + (IF NextIs(call'.arg) THEN 1 ELSE 0)
          /\ call'.op = "skip_bytes" =>
               cur_offset' = cur_offset + (IF ret'.err = "" /\ given.x.n > 0
                                           THEN given.x.n ELSE 0)]_vars

\* On 07 ff 07: parse_byte, then maybe_match_byte(0xff) took the byte 0xff,
\* and the last byte is the lookahead.
C24_Witness ==
  /\ given.kind = "skip" /\ given.x.bytes = <<7, 255, 7>>
  /\ call = [op |-> "maybe_match_byte", at |-> 1, arg |-> 255]
  /\ ret = [err |-> "", val |-> TRUE]
  /\ cur_offset = 2 /\ cur_byte = 7 /\ ~is_.eofbit

\* maybe_match_byte(b) was called.
MaybeMatched == given.kind = "skip" /\ call.op = "maybe_match_byte"

\* C25 as stated: maybe_match_byte(b) never fails, for any byte b and any
\* state of the cursor: it returns true when the next byte exists and is b,
\* and has then consumed it, and false otherwise, the end of the input
\* included.
C25_ClaimedMaybeMatch ==
  [][(CursorStep /\ call'.op = "maybe_match_byte") =>
       /\ ret'.err = ""
       /\ IF NextIs(call'.arg)
          THEN ret'.val = TRUE /\ cur_offset' = cur_offset + 1
          ELSE ret'.val = FALSE /\ UNCHANGED <<is_, cur_byte, cur_offset>>]_vars

\* The errors the decoder throws as std::logic_error.
LogicErrors ==
  {"UnexpectedEof", "ExpectedByte", "UnknownTag", "UnknownOpcode", "SectionSizeMismatch",
   "TrailingBytes", "InvalidLeb128"}

\* C27 as stated: every input parse_wasm rejects is rejected with the
\* decoder's error (std::logic_error) raised to the caller, a vector or a
\* name with the count 0xffffffff included: the process is not terminated.
C27_ClaimedLogicError ==
  (call.op = "parse_wasm" /\ ret.err # "") => ret.err \in LogicErrors

\* tok_id is called in this step and rejects its argument.
TokIdRejects == pc = "writer" /\ call'.op = "tok_id" /\ ret'.err # ""

\* C28: when tok_id rejects its argument it has written nothing and changed
\* nothing of the writer: the output, need_ws, just_closed_sexp and
\* indent_level are as before the call.
C28_TokIdRejectsUnchanged ==
  [][TokIdRejects =>
       /\ os' = os /\ need_ws' = need_ws
       /\ just_closed_sexp' = just_closed_sexp /\ indent_level' = indent_level]_vars

\* tok_id("a;") was rejected after "(" and a keyword: a space was due and
\* the indentation level is 2.
C28_Witness ==
  /\ given.kind = "tokens" /\ call.op = "tok_id" /\ call.arg = Text("a;")
  /\ ret.err = "InvalidId"
  /\ os = Text("(module") /\ need_ws /\ ~just_closed_sexp /\ indent_level = 2


\* The first section of ids that comes a second time or after a section
\* that is later in the sequence of parse_module; 0 if there is none.
Offender(ids) ==
  IF InOrder(AmendedOrder, ids) THEN 0
  ELSE CHOOSE k \in 1..Len(ids) :
         /\ ~InOrder(AmendedOrder, SubSeq(ids, 1, k))
         /\ InOrder(AmendedOrder, SubSeq(ids, 1, k - 1))

\* The offset of the k-th section of an input of sections.
SectionOffset(x, k) ==
  Len(Header) + Len(Sections(SubSeq(x.ids, 1, k - 1), <<>>))
  + k * Len(x.filler)

\* C29: a non-custom section that comes a second time, or after a section
\* that is later in the sequence of parse_module, is never parsed as a
\* section: parse_module fails at it with the error that the end of the
\* file was expected, and returns no module.
C29_RepeatedOrLateSection ==
  (Decoded /\ given.kind = "order") =>
    LET k == Offender(given.x.ids) IN
    IF k = 0
    THEN ret.err = "" <=> given.x.body # <<255>>
    ELSE /\ ret.err = "TrailingBytes"
         /\ cur_offset = SectionOffset(given.x, k)
         /\ module = NoModule

\* parse_module has stopped at the second type section of type, import,
\* type, though its body is 0xff.
C29_Witness ==
  /\ Decoded /\ given.kind = "order"
  /\ given.x.ids = <<k_section_type, k_section_import, k_section_type>>
  /\ given.x.body = <<255>> /\ given.x.filler = <<>>
  /\ ret.err = "TrailingBytes" /\ cur_offset = SectionOffset(given.x, 3)


\* A section of inner frames was given to its parser.
FramesCalled == FreshCall /\ given.kind \in {"subframes", "codeframes"}

\* A frame declares another size than its payload has.
Misdeclared(frames) ==
  \E i \in 1..Len(frames) :
    frames[i].declared #
      Len(IF given.kind = "subframes" THEN frames[i].payload ELSE frames[i].func)

\* C30: the size a recognized name subsection (ids 0, 1, 2, 7, 9) or a code
\* entry declares is not compared with what its payload takes: whatever the
\* frames declare, the section is accepted when the size the section
\* declares is that of its body, and the frames are decoded by their
\* payloads; it is rejected when the section declares one byte more.
C30_InnerSizesIgnored ==
  FramesCalled =>
    /\ given.x.off = 0 => ret.err = "" /\ cur_offset = Len(is_.data) - 1
    /\ given.x.off = 1 =>
          ret.err = IF given.kind = "codeframes" THEN "SectionSizeMismatch"
                    ELSE "UnexpectedEof"
    /\ given.kind = "subframes" /\ given.x.off = 0 =>
          module = NamedBy(given.x.frames) /\ cerr = <<>>

\* A code section of two entries, one declaring no bytes and one declaring
\* two bytes more than its function has, was accepted.
C30_Witness ==
  /\ FramesCalled /\ given.kind = "codeframes" /\ given.x.off = 0
  /\ Len(given.x.frames) = 2
  /\ given.x.frames[1].declared = 0
  /\ given.x.frames[2].declared = Len(given.x.frames[2].func) + 2
  /\ ret.err = "" /\ pc = "ready"


(***************************************************************************)
(* parse_module, statement by statement                                    *)
(***************************************************************************)

\* stage is 0 before the call, i in 1..Len(SectionOrder) before the i-th
\* "if (not is_->eof() && cur_byte == k_section_...)" with the
\* parse_opt_customsecs() before it, StageLast before the last
\* parse_opt_customsecs() and the test for the end of the file, and
\* StageDone when the call is over.
StageLast == Len(SectionOrder) + 1
StageDone == Len(SectionOrder) + 2

\* A module with every section, custom sections around them.
FullModule ==
  [kind |-> "secs", op |-> "parse_module", x |-> [ids |-> SectionOrder, filler |-> Filler]]

StepInputs ==
  SecsInputs \cup CustomsInputs \cup TrailingInputs \cup OrderInputs \cup {FullModule}

ConstructSteps ==
  \/ \E g \in StepInputs : Construct(BytesOf(g), g)
  \/ \E g \in HeaderInputs : Construct(BytesOf(g), g)

\* The statements done leave the outcome r (its value: the local module and
\* what was written to std::cerr) and parse_module goes on at `next`.  An
\* exception ends the call and the local module with it; a failed CHECK
\* ends the process.
Statement(r, next) ==
  /\ is_' = r.p.is
  /\ cur_byte' = r.p.cur_byte
  /\ cur_offset' = r.p.cur_offset
  /\ cerr' = cerr \o r.val.cerr
  /\ ret' = [err |-> r.err, val |-> <<>>]
  /\ pc' = IF Failed(r) THEN "failed" ELSE "ready"
  /\ stage' = IF Failed(r) THEN StageDone ELSE next
  /\ module' = IF Failed(r) THEN NoModule ELSE r.val.module
  /\ call' = IF Failed(r) \/ next = StageDone THEN [op |-> "parse_module", at |-> 0]
             ELSE call
  /\ exit_status' = IF r.err = "CheckFailed" THEN Abort ELSE exit_status
  /\ UNCHANGED <<given, shift_ub, writer_vars, cout>>

\* The parser with the local module of parse_module.
Local == WithVal(Self, Out(module, <<>>))

\* not is_->eof() && cur_byte == k_section_custom
AtCustomsec == ~is_.eofbit /\ cur_byte = k_section_custom

\* parse_magic(); parse_version(); auto module = Ast_module{};
ModuleBegin ==
  /\ pc = "ready" /\ stage = 0
  /\ Statement(WithVal(parse_version(parse_magic(Self)), Out(NoModule, <<>>)), 1)

\* One turn of the loop of parse_opt_customsecs().
OptCustomsec ==
  /\ pc = "ready" /\ stage \in 1..StageLast
  /\ AtCustomsec
  /\ Statement(invoke("parse_customsec", Local), stage)

\* The loop of parse_opt_customsecs() is left, and the section of this
\* stage is decoded if the lookahead is its id.
OptSection ==
  /\ pc = "ready" /\ stage \in 1..Len(SectionOrder)
  /\ ~AtCustomsec
  /\ Statement(optional_section(Local, SectionOrder[stage]), stage + 1)

\* if (not is_->eof()) { throw ... } return module;
ModuleEnd ==
  /\ pc = "ready" /\ stage = StageLast
  /\ ~AtCustomsec
  /\ Statement(IF DataContinues(Self.p)
               THEN WithVal(Throw(Self.p, "TrailingBytes"), Out(module, <<>>))
               ELSE Local,
               StageDone)

NextSteps == ConstructSteps \/ ModuleBegin \/ OptCustomsec \/ OptSection \/ ModuleEnd

SpecSteps == Init /\ [][NextSteps]_vars

\* The statements of parse_module, one after the other, end as the call
\* as a whole does.
StepsAgree ==
  stage = StageDone =>
    LET r == parse_module(Ok(prime(Stream(is_.data)), <<>>)) IN
    /\ ret.err = r.err
    /\ cur_offset = r.p.cur_offset
    /\ cerr = r.val.cerr
    /\ ~Failed(r) => module = r.val.module

\* parse_module is over.
Finished == stage = StageDone

\* The call has returned a module / has left with an exception of the
\* decoder / has ended the process.
ModuleReturned == Finished /\ pc = "ready"
ErrorRaised == Finished /\ pc = "failed" /\ ret.err \in LogicErrors
ProcessAborted == Finished /\ exit_status = Abort

\* parse_module is in a call that is not over.
Running == pc = "ready" /\ stage \in 0..StageLast

\* While the call is not over there is a statement to do.
NeverStuck ==
  Running =>
    \/ stage = 0
    \/ AtCustomsec
    \/ ~AtCustomsec /\ stage \in 1..Len(SectionOrder)
    \/ ~AtCustomsec /\ stage = StageLast

\* The cursor is within the input, or one past it once the end was met.
WithinInput == cur_offset <= Len(is_.data) /\ is_.pos <= Len(is_.data)

\* Every statement of parse_module goes on to a later stage, or is a turn of
\* the custom section loop that takes at least the id and the size of a
\* section from the input or fails; none moves the stream or the cursor
\* back.  With NeverStuck and WithinInput: every call comes to an end.
ModuleStepsAdvance ==
  [][Running =>
       /\ \/ stage' > stage
          \/ stage' = stage /\ AtCustomsec /\ cur_offset' >= cur_offset + 2
       /\ is_'.pos >= is_.pos /\ cur_offset' >= cur_offset]_vars

\* A call that is over has returned a module, raised an error of the
\* decoder or ended the process.
FinishedSomehow == Finished => (ModuleReturned \/ ErrorRaised \/ ProcessAborted)

\* The bodies of the loops, called on their own: an instruction, an element
\* of a vector (a byte, an integer, a name, a section of them), a custom
\* section with its name subsections.  A call that returns has taken at
\* least one byte from the input.
LoopBodiesConsume ==
  [][(pc = "ready" /\ pc' = "ready" /\ call' # call
      /\ call'.op \notin {"skip_bytes", "maybe_match_byte", "parse_module"})
       => cur_offset' > cur_offset]_vars

\* C26 as stated: a call of parse_module comes to an end, and it ends
\* either returning a module or raising an error.
C26_ClaimedFinish ==
  /\ NeverStuck /\ WithinInput
  /\ Finished => (ModuleReturned \/ ErrorRaised)

====
